---- MODULE Spec2Model ----
(***************************************************************************)
(* Model of the simulated motion engine (MockBackend) of suruga_seiki_ew51 *)
(* running on a single asyncio event loop.                                 *)
(*                                                                         *)
(* The event loop is modelled as asyncio implements it: a FIFO queue of    *)
(* ready handles (`ready`), each handle running one task step to its next  *)
(* suspension point.  Motion tasks are the coroutines _simulate_motion     *)
(* wrapped by asyncio.create_task; callers are the tasks of the code that  *)
(* calls the backend (request handlers, tests).  A caller that has been    *)
(* dispatched runs backend operations back to back without returning to    *)
(* the loop until an operation suspends or the caller yields.              *)
(***************************************************************************)
EXTENDS Integers, Sequences, FiniteSets, TLC

\* ---------------------------------------------------------------- bounds
\* Number of axes of the AxisId enumeration that the model instantiates.
NumAxes == 2
\* Number of motion tasks that may be created in one behaviour of Spec.
MaxTasks == 2
\* Number of further motion tasks that may be created in one behaviour of SpecX1.
MoreTasks == 2
\* Number of concurrent callers of the backend.
NumCallers == 2
\* Number of backend instances the daemon may construct in one behaviour.
MaxBackends == 2
\* Number of concurrent callers of the daemon.
NumDaemonCallers == 2

\* ------------------------------------------------------ program constants
DefaultSpeed == 1000
TravelLimit == 500000
UpdatesPerSecond == 10

Axes == 1..NumAxes
TaskIds == 1..(MaxTasks + MoreTasks)
\* Callers are numbered above the task ids so that both can share `ready`.
Callers == {MaxTasks + MoreTasks + k : k \in 1..NumCallers}
\* None, as stored in a slot of _motion_tasks.
NoTask == 0
\* None, as stored in EW51Daemon._backend.
NoBackend == 0
DaemonCallers == 1..NumDaemonCallers
\* StageId.LEFT and StageId.RIGHT
LeftStage == 1
RightStage == 2
\* No StationStatus: what a daemon call that is not a successful get_status() holds.
NoStatus == [daemon_state |-> "", left_stage |-> <<>>, right_stage |-> <<>>,
             is_mock |-> FALSE, connection_established |-> FALSE]
\* A caller of the daemon that is not inside start() or stop(); op and res are
\* those of its last call.
IdleDaemonCall == [op |-> "none", pc |-> "idle", inst |-> NoBackend, res |-> "",
                   status |-> NoStatus]

\* Move requests (target, relative, speed) the callers draw from.
\* hasSpeed = FALSE is speed=None.
MoveRequests ==
  { [target |-> 200,    relative |-> FALSE, hasSpeed |-> FALSE, speed |-> 0],
    [target |-> 600000, relative |-> TRUE,  hasSpeed |-> FALSE, speed |-> 0] }
\* home_axis calls move_axis(axis, 0.0, relative=False).
HomeRequest == [target |-> 0, relative |-> FALSE, hasSpeed |-> FALSE, speed |-> 0]

VARIABLES
  connected,      \* AbstractBackend._connected
  positions,      \* MockBackend._positions
  servo_enabled,  \* MockBackend._servo_enabled
  is_homed,       \* MockBackend._is_homed
  is_moving,      \* MockBackend._is_moving
  motion_tasks,   \* MockBackend._motion_tasks : axis -> task id or NoTask
  tasks,          \* the asyncio.Task objects created by move_axis
  nextTask,       \* id of the next task create_task will return
  waiters,        \* per task: callers awaiting it, in registration order
  ready,          \* the event loop's FIFO of ready handles
  running,        \* the caller now executing, or 0 when the loop is between handles
  call,           \* per caller: the backend operation it is executing
  lastWriter,     \* per axis: the task that last wrote _positions[axis]
  use_mock,       \* EW51Daemon._use_mock
  state,          \* EW51Daemon._state
  backend,        \* EW51Daemon._backend : backend instance id or NoBackend
  instances,      \* the backend instances start() constructed: their _connected flags
  dcall,          \* per caller of the daemon: the daemon operation it is executing
  multi,          \* the move_multiple_axes request being served
  align,          \* the AlignmentController.wait_for_completion call in progress
  real_connected, \* RealBackend._connected
  axis_components,\* RealBackend._axis_components: the axis numbers it holds
  servo_on,       \* the driver: per axis number, what IsServoOn() reports
  rcall,          \* the RealBackend operation in progress
  sim             \* one axis of a MockBackend with one client, in floating point

\* The state of the daemon that owns the backend.
daemonVars == <<use_mock, state, backend, instances, dcall>>

\* The state of the procedures that run over a backend's interface.
realVars == <<real_connected, axis_components, servo_on, rcall>>

procedureVars == <<multi, align, realVars, sim>>

vars == <<connected, positions, servo_enabled, is_homed, is_moving, motion_tasks,
          tasks, nextTask, waiters, ready, running, call, lastWriter, daemonVars,
          procedureVars>>

axisState == <<positions, servo_enabled, is_homed, is_moving, motion_tasks>>

\* The state of the backend and of the event loop that runs it.
backendVars == <<connected, axisState, tasks, nextTask, waiters, ready, running, call,
                 lastWriter>>

\* No move_multiple_axes request is being served.
IdleMulti == [pc |-> "idle", movements |-> <<>>, wait |-> FALSE, i |-> 0, calls |-> <<>>,
              responses |-> <<>>, overall_status |-> "COMPLETED"]

\* AlignmentStatus, and the result of a wait_for_completion that has none yet.
AlignmentStatuses == {"Idle", "Aligning", "Success", "Failure", "Stopped", "Error"}
NoResult == [success |-> FALSE, status |-> "Idle", message |-> ""]

\* No wait_for_completion call is in progress.
IdleAlign == [pc |-> "idle", timeout |-> 0, poll_interval |-> 0, elapsed |-> 0,
              polls |-> 0, polled |-> "Idle", result |-> NoResult]

\* The axis numbers of the driver: range(1, 13).
FirstAxisNumber == 1
LastAxisNumber == 12
AxisNumbers == FirstAxisNumber..LastAxisNumber

\* No RealBackend operation is in progress.
IdleRealCall == [op |-> "none", pc |-> "idle", axis |-> 0, timeout |-> 0, elapsed |-> 0,
                 polls |-> 0, polled |-> "", attempted |-> <<>>, failing |-> {},
                 moving |-> FALSE, servo |-> FALSE, res |-> ""]

\* RealBackend.__init__, over a driver whose servos are off.
RealInit ==
  /\ real_connected = FALSE
  /\ axis_components = {}
  /\ servo_on = [n \in AxisNumbers |-> FALSE]
  /\ rcall = IdleRealCall

\* One axis of a MockBackend after connect() and enable_servo(axis): at 0, not
\* moving, no motion task.
IdleSim == [pc |-> "idle", start |-> 0, target |-> 0, speed |-> 0, steps |-> 1, i |-> 0,
            position |-> 0, is_moving |-> FALSE, updates |-> 0, sleeps |-> 0,
            ended |-> "none", res |-> "", moves |-> 0]

\* No procedure over a backend is running.
ProceduresIdle ==
  /\ multi = IdleMulti
  /\ align = IdleAlign
  /\ RealInit
  /\ sim = IdleSim

\* EW51Daemon.__init__, for a daemon that uses the mock backend.
DaemonInit ==
  /\ use_mock = TRUE
  /\ state = "STOPPED"
  /\ backend = NoBackend
  /\ instances = <<>>
  /\ dcall = [c \in DaemonCallers |-> IdleDaemonCall]

\* ------------------------------------------------------------- helpers
Abs(x) == IF x < 0 THEN -x ELSE x

Max(a, b) == IF a >= b THEN a ELSE b

\* speed if speed is not None else self._default_speed
MotionSpeed(req) == IF req.hasSpeed THEN req.speed ELSE DefaultSpeed

\* actual_target = start_pos + target if relative else target
ActualTarget(start, req) == IF req.relative THEN start + req.target ELSE req.target

\* n / d rounded to the nearest integer, ties to even (n >= 0, d > 0).
RoundDiv(n, d) ==
  LET q == n \div d
      r == n % d
  IN IF 2 * r > d \/ (2 * r = d /\ q % 2 = 1) THEN q + 1 ELSE q

\* steps as it would be with round(duration * 10) in place of int(duration * 10).
StepsRounded(start, target, speed) ==
  IF speed > 0 THEN Max(RoundDiv(Abs(target - start) * UpdatesPerSecond, speed), 1) ELSE 1

\* steps = max(int(duration * 10), 1) with duration = distance / speed if speed > 0 else 0
Steps(start, target, speed) ==
  IF speed > 0 THEN Max((Abs(target - start) * UpdatesPerSecond) \div speed, 1) ELSE 1

\* duration = 0: every asyncio.sleep(duration / steps) is a sleep(0), a bare yield.
Instant(start, target, speed) == speed <= 0 \/ target = start

\* start + (target - start) * progress, progress = i / steps
Interp(start, target, i, steps) == start + ((target - start) * i) \div steps

\* task.done()
Done(t) == tasks[t].st \in {"done", "cancelled"}

\* `task` alone, as the test would be without `not task.done()`.
LiveIgnoringDone(t) == t # NoTask

\* `task and not task.done()`
Live(t) == t # NoTask /\ ~Done(t)

\* The tasks of an axis that were created and are neither finished nor cancelled.
LiveTasks(a) == {t \in TaskIds : tasks[t].st # "none" /\ tasks[t].axis = a /\ ~Done(t)}

NoTaskRec == [axis |-> 1, start |-> 0, target |-> 0, steps |-> 1, instant |-> FALSE,
              i |-> 0, st |-> "none", mustCancel |-> FALSE]

\* A task that is done: its coroutine frame (axis, start, target, steps, i) is gone,
\* what remains is how it ended and whether it ever wrote a position.
DoneTaskRec(T, how) == [NoTaskRec EXCEPT !.st = how, !.i = IF T.i > 0 THEN 1 ELSE 0]

\* The StageStatus of a call that returned none.
NoStageStatus == [stage_id |-> 0, axes |-> <<>>, angle_offset |-> 0]

IdleCall == [op |-> "none", axis |-> 1, pc |-> "idle", res |-> "", t |-> NoTask,
             idx |-> 0, req |-> HomeRequest, sub |-> "", to |-> FALSE,
             mv |-> {}, made |-> NoTask, dirty |-> FALSE, val |-> 0,
             status |-> NoStageStatus,
             prevMade |-> NoTask, prevAxis |-> 1, prevStart |-> 0, prevTarget |-> 0]

\* task.cancel() on a task that is not done: a task suspended on a sleep timer has
\* the timer future cancelled, which schedules its wakeup; a task whose step is
\* already scheduled gets _must_cancel.  Either way its next step raises CancelledError.
CancelIn(T, t) == [T EXCEPT ![t].mustCancel = TRUE,
                            ![t].st = IF @ = "sleep" THEN "ready" ELSE @]

\* The handles task.cancel() adds to the ready queue.
CancelWake(t) == IF tasks[t].st = "sleep" THEN <<t>> ELSE <<>>

Init ==
  /\ connected = FALSE
  /\ positions = [a \in Axes |-> 0]
  /\ servo_enabled = [a \in Axes |-> FALSE]
  /\ is_homed = [a \in Axes |-> FALSE]
  /\ is_moving = [a \in Axes |-> FALSE]
  /\ motion_tasks = [a \in Axes |-> NoTask]
  /\ tasks = [t \in TaskIds |-> NoTaskRec]
  /\ nextTask = 1
  /\ waiters = [t \in TaskIds |-> <<>>]
  /\ ready = <<>>
  /\ running = 0
  /\ call = [c \in Callers |-> IdleCall]
  /\ lastWriter = [a \in Axes |-> NoTask]
  /\ DaemonInit
  /\ ProceduresIdle


\* ------------------------------------------------------- the event loop
\* True when the loop is between handles and h is the handle it runs next.
AtHead(h) == running = 0 /\ ready # <<>> /\ Head(ready) = h

\* The timer of an asyncio.sleep(duration / steps) of a motion task expires.
SleepTimer(t) ==
  /\ tasks[t].st = "sleep"
  /\ tasks' = [tasks EXCEPT ![t].st = "ready"]
  /\ ready' = Append(ready, t)
  /\ UNCHANGED <<connected, axisState, nextTask, waiters, running, call, lastWriter>>
  /\ UNCHANGED <<daemonVars, procedureVars>>

\* The call records after a task wrote the position of axis a: a move_axis that has
\* awaited the cancellation of the prior task and has not run since is marked, its
\* start position is no longer the one at which the prior task stopped.
Overwritten(a) ==
  [d \in Callers |->
     IF /\ call[d].pc = "await" /\ call[d].op \in {"move_axis", "home_axis"}
        /\ call[d].sub = "" /\ call[d].axis = a /\ Done(call[d].t)
     THEN [call[d] EXCEPT !.dirty = TRUE] ELSE call[d]]

\* One step of the task that wraps _simulate_motion: from one suspension point
\* to the next, or to the end of the coroutine.
SimulateMotionStep(t) ==
  LET T == tasks[t]
      a == T.axis
  IN
  /\ AtHead(t)
  /\ IF T.mustCancel
     THEN \* CancelledError is thrown into the coroutine at its suspension point
          /\ tasks' = [tasks EXCEPT ![t] = DoneTaskRec(T, "cancelled")]
          /\ IF T.st = "new"
             THEN \* the coroutine never started: the try block was not entered
                  UNCHANGED <<is_moving, motion_tasks>>
             ELSE \* finally:
                  /\ is_moving' = [is_moving EXCEPT ![a] = FALSE]
                  /\ motion_tasks' = [motion_tasks EXCEPT ![a] = NoTask]
          /\ ready' = Tail(ready) \o waiters[t]
          /\ waiters' = [waiters EXCEPT ![t] = <<>>]
          /\ lastWriter' = [lastWriter EXCEPT ![a] = IF @ = t THEN NoTask ELSE @]
          /\ UNCHANGED <<positions, call>>
     ELSE IF T.i <= T.steps
     THEN \* for i in range(steps + 1): write, then sleep
          /\ is_moving' = IF T.st = "new" THEN [is_moving EXCEPT ![a] = TRUE] ELSE is_moving
          /\ positions' = [positions EXCEPT ![a] = Interp(T.start, T.target, T.i, T.steps)]
          /\ lastWriter' = [lastWriter EXCEPT ![a] = t]
          /\ tasks' = [tasks EXCEPT ![t].i = T.i + 1,
                                    ![t].st = IF T.instant THEN "ready" ELSE "sleep"]
          /\ ready' = Tail(ready) \o (IF T.instant THEN <<t>> ELSE <<>>)
          /\ call' = Overwritten(a)
          /\ UNCHANGED <<motion_tasks, waiters>>
     ELSE \* after the loop: position = target, then finally
          /\ positions' = [positions EXCEPT ![a] = T.target]
          /\ lastWriter' = [lastWriter EXCEPT ![a] = NoTask]
          /\ is_moving' = [is_moving EXCEPT ![a] = FALSE]
          /\ motion_tasks' = [motion_tasks EXCEPT ![a] = NoTask]
          /\ tasks' = [tasks EXCEPT ![t] = DoneTaskRec(T, "done")]
          /\ call' = Overwritten(a)
          /\ ready' = Tail(ready) \o waiters[t]
          /\ waiters' = [waiters EXCEPT ![t] = <<>>]
  /\ UNCHANGED <<connected, servo_enabled, is_homed, nextTask, running>>
  /\ UNCHANGED <<daemonVars, procedureVars>>

\* ------------------------------------------------------------- callers
\* A caller that is not inside the backend becomes runnable (a request arrives).
Arrive(c) ==
  /\ call[c].pc = "idle"
  /\ call' = [call EXCEPT ![c].pc = "queued"]
  /\ ready' = Append(ready, c)
  /\ UNCHANGED <<connected, axisState, tasks, nextTask, waiters, running, lastWriter>>
  /\ UNCHANGED <<daemonVars, procedureVars>>

\* The caller returns to the event loop after an operation has returned or raised.
Yield(c) ==
  /\ running = c
  /\ call[c].pc = "ret"
  /\ call' = [call EXCEPT ![c] = IdleCall]
  /\ running' = 0
  /\ UNCHANGED <<connected, axisState, tasks, nextTask, waiters, ready, lastWriter>>
  /\ UNCHANGED <<daemonVars, procedureVars>>

\* The caller is executing and may call the backend.
CanCall(c) == running = c /\ call[c].pc = "ret"

\* The record of a call that begins.  prevMade, prevAxis, prevStart and prevTarget
\* remember the task that a move_axis made just before this call, with no return
\* to the event loop in between, and the move it is to make.
CallStart(c, op, a) ==
  LET n == call[c].made IN
  [IdleCall EXCEPT !.op = op, !.axis = a, !.pc = "run",
                   !.prevMade = n,
                   !.prevAxis = IF n # NoTask THEN tasks[n].axis ELSE 1,
                   !.prevStart = IF n # NoTask THEN tasks[n].start ELSE 0,
                   !.prevTarget = IF n # NoTask THEN tasks[n].target ELSE 0]

Returned(r, res) == [r EXCEPT !.pc = "ret", !.res = res, !.idx = 0, !.sub = "", !.to = FALSE]

Awaiting(r, t) == [r EXCEPT !.pc = "await", !.t = t]

\* ------------------------------------------------- MockBackend operations
\* The servo flags as they would be if one switch were shared by all axes.
ServoSwitchedOnEveryAxis(a, on) == [b \in Axes |-> on]

\* self._servo_enabled[axis] = True (enable_servo) or False (disable_servo)
ServoSwitched(a, on) == [servo_enabled EXCEPT ![a] = on]

\* enable_servo
EnableServo(c, a) ==
  /\ CanCall(c)
  /\ LET r == CallStart(c, "enable_servo", a) IN
     IF ~connected
     THEN /\ call' = [call EXCEPT ![c] = Returned(r, "HardwareError")]
          /\ UNCHANGED servo_enabled
     ELSE /\ servo_enabled' = ServoSwitched(a, TRUE)
          /\ call' = [call EXCEPT ![c] = Returned(r, "ok")]
  /\ UNCHANGED <<connected, positions, is_homed, is_moving, motion_tasks, tasks,
                 nextTask, waiters, ready, running, lastWriter>>
  /\ UNCHANGED <<daemonVars, procedureVars>>

\* connect, up to `await asyncio.sleep(0.1)`
Connect(c) ==
  /\ CanCall(c)
  /\ call' = [call EXCEPT ![c] = [CallStart(c, "connect", 1) EXCEPT !.pc = "sleep"]]
  /\ running' = 0
  /\ UNCHANGED <<connected, axisState, tasks, nextTask, waiters, ready, lastWriter>>
  /\ UNCHANGED <<daemonVars, procedureVars>>

\* The timer of connect's sleep expires.
ConnectTimer(c) ==
  /\ call[c].pc = "sleep"
  /\ call' = [call EXCEPT ![c].pc = "slept"]
  /\ ready' = Append(ready, c)
  /\ UNCHANGED <<connected, axisState, tasks, nextTask, waiters, running, lastWriter>>
  /\ UNCHANGED <<daemonVars, procedureVars>>

\* move_axis as it would be without its servo check.
MovePreconditionNoServoCheck(a) ==
  IF ~connected THEN "HardwareError" ELSE "ok"

\* The precondition checks at the top of move_axis (and of home_axis).
MovePrecondition(a) ==
  IF ~connected THEN "HardwareError"
  ELSE IF ~servo_enabled[a] THEN "ServoError"
  ELSE "ok"

\* task.cancel() followed by `await task` by caller c executing call record r:
\* the caller suspends until the task is done.  q is the ready queue so far.
CancelAndAwait(c, r, t, q) ==
  /\ tasks' = CancelIn(tasks, t)
  /\ ready' = q \o CancelWake(t)
  /\ waiters' = [waiters EXCEPT ![t] = Append(@, c)]
  /\ call' = [call EXCEPT ![c] = Awaiting(r, t)]
  /\ running' = 0

\* The bounds check as it would be with `>=` in place of `>`.
OutOfBoundsInclusive(actual_target) == Abs(actual_target) >= TravelLimit

\* if abs(actual_target) > 500_000: raise MovementError
OutOfBounds(actual_target) == Abs(actual_target) > TravelLimit

\* move_axis from "Calculate actual target" to its end; for home_axis, continued
\* by the wait_for_motion_complete that follows without a suspension in between.
MoveStart(c, r, q) ==
  LET a == r.axis
      start_pos == positions[a]
      actual_target == ActualTarget(start_pos, r.req)
      motion_speed == MotionSpeed(r.req)
      n == nextTask
  IN
  IF OutOfBounds(actual_target)
  THEN /\ call' = [call EXCEPT ![c] = Returned(r, "MovementError")]
       /\ ready' = q
       /\ running' = c
       /\ UNCHANGED <<tasks, nextTask, motion_tasks, waiters>>
  ELSE /\ tasks' = [tasks EXCEPT ![n] =
                      [axis |-> a, start |-> start_pos, target |-> actual_target,
                       steps |-> Steps(start_pos, actual_target, motion_speed),
                       instant |-> Instant(start_pos, actual_target, motion_speed),
                       i |-> 0, st |-> "new", mustCancel |-> FALSE]]
       /\ motion_tasks' = [motion_tasks EXCEPT ![a] = n]
       /\ nextTask' = n + 1
       /\ ready' = Append(q, n)
       /\ IF r.op # "home_axis"
          THEN /\ call' = [call EXCEPT ![c] = Returned([r EXCEPT !.made = n], "ok")]
               /\ running' = c
               /\ UNCHANGED waiters
          ELSE IF ~connected
          THEN \* wait_for_motion_complete raises on its connection check
               /\ call' = [call EXCEPT ![c] = Returned([r EXCEPT !.made = n], "HardwareError")]
               /\ running' = c
               /\ UNCHANGED waiters
          ELSE \* the new task is not done: await asyncio.wait_for(task, timeout)
               /\ call' = [call EXCEPT ![c] = Awaiting([r EXCEPT !.made = n, !.sub = "wait"], n)]
               /\ waiters' = [waiters EXCEPT ![n] = Append(@, c)]
               /\ running' = 0

\* Callers suspended inside move_axis, each of which will still create a task.
PendingMoves == {d \in Callers : call[d].pc = "await" /\ call[d].op \in {"move_axis", "home_axis"}
                                   /\ call[d].sub = ""}

\* Of the `limit` tasks a behaviour may create, one is left for this call and one
\* for every move that is already suspended.
TaskIdLeft(limit) == nextTask + Cardinality(PendingMoves) <= limit

\* move_axis / home_axis from entry to the first suspension or the return.
MoveEntry(c, r) ==
  LET a == r.axis
      pre == MovePrecondition(a)
  IN
  IF pre # "ok"
  THEN /\ call' = [call EXCEPT ![c] = Returned(r, pre)]
       /\ UNCHANGED <<motion_tasks, tasks, nextTask, waiters, ready, running>>
  ELSE IF Live(motion_tasks[a])
  THEN /\ CancelAndAwait(c, r, motion_tasks[a], ready)
       /\ UNCHANGED <<motion_tasks, nextTask>>
  ELSE MoveStart(c, r, ready)

\* move_axis(axis, target, relative, speed)
MoveAxis(c, a, req, limit) ==
  /\ CanCall(c)
  /\ TaskIdLeft(limit)
  /\ MoveEntry(c, [CallStart(c, "move_axis", a) EXCEPT
                     !.req = req,
                     !.mv = IF is_moving[a] THEN {a} ELSE {}])
  /\ UNCHANGED <<connected, positions, servo_enabled, is_homed, is_moving, lastWriter>>
  /\ UNCHANGED <<daemonVars, procedureVars>>

\* home_axis(axis): its own checks are those of move_axis, which it calls first.
HomeAxis(c, a, limit) ==
  /\ CanCall(c)
  /\ TaskIdLeft(limit)
  /\ MoveEntry(c, [CallStart(c, "home_axis", a) EXCEPT !.req = HomeRequest])
  /\ UNCHANGED <<connected, positions, servo_enabled, is_homed, is_moving, lastWriter>>
  /\ UNCHANGED <<daemonVars, procedureVars>>

\* wait_for_motion_complete(axis, timeout), timeout > 0
WaitForMotionComplete(c, a) ==
  /\ CanCall(c)
  /\ LET r == CallStart(c, "wait_for_motion_complete", a)
         task == motion_tasks[a]
     IN
     IF ~connected
     THEN /\ call' = [call EXCEPT ![c] = Returned(r, "HardwareError")]
          /\ UNCHANGED <<waiters, running>>
     ELSE IF ~Live(task)
     THEN /\ call' = [call EXCEPT ![c] = Returned(r, "ok")]
          /\ UNCHANGED <<waiters, running>>
     ELSE /\ call' = [call EXCEPT ![c] = Awaiting([r EXCEPT !.sub = "wait"], task)]
          /\ waiters' = [waiters EXCEPT ![task] = Append(@, c)]
          /\ running' = 0
  /\ UNCHANGED <<connected, axisState, tasks, nextTask, ready, lastWriter>>
  /\ UNCHANGED <<daemonVars, procedureVars>>

\* The timeout of asyncio.wait_for expires: the waiting caller is cancelled, which
\* cancels the task it awaits; the caller raises TimeoutError when it next runs.
WaitTimeout(c) ==
  /\ call[c].pc = "await"
  /\ call[c].sub = "wait"
  /\ ~call[c].to
  /\ call' = [call EXCEPT ![c].to = TRUE]
  /\ IF Live(call[c].t)
     THEN /\ tasks' = CancelIn(tasks, call[c].t)
          /\ ready' = ready \o CancelWake(call[c].t)
     ELSE UNCHANGED <<tasks, ready>>
  /\ UNCHANGED <<connected, axisState, nextTask, waiters, running, lastWriter>>
  /\ UNCHANGED <<daemonVars, procedureVars>>

\* disable_servo from "self._servo_enabled[axis] = False" to its end
DisableServoFinish(c, r) ==
  /\ servo_enabled' = ServoSwitched(r.axis, FALSE)
  /\ call' = [call EXCEPT ![c] = Returned(r, "ok")]

\* disable_servo(axis)
DisableServo(c, a) ==
  /\ CanCall(c)
  /\ LET r == [CallStart(c, "disable_servo", a) EXCEPT !.mv = IF is_moving[a] THEN {a} ELSE {}]
         task == motion_tasks[a]
     IN
     IF ~connected
     THEN /\ call' = [call EXCEPT ![c] = Returned(r, "HardwareError")]
          /\ UNCHANGED <<servo_enabled, tasks, waiters, ready, running>>
     ELSE IF is_moving[a] /\ Live(task)
     THEN /\ CancelAndAwait(c, r, task, ready)
          /\ UNCHANGED servo_enabled
     ELSE /\ DisableServoFinish(c, r)
          /\ UNCHANGED <<tasks, waiters, ready, running>>
  /\ UNCHANGED <<connected, positions, is_homed, is_moving, motion_tasks, nextTask, lastWriter>>
  /\ UNCHANGED <<daemonVars, procedureVars>>

\* The loop of emergency_stop from axis k on: the first axis that is flagged moving
\* and holds a task that is not done is cancelled and awaited.
EmergencyStopFrom(c, r, k, q) ==
  LET hit == {j \in k..NumAxes : is_moving[j] /\ Live(motion_tasks[j])} IN
  IF hit = {}
  THEN /\ call' = [call EXCEPT ![c] = Returned(r, "ok")]
       /\ ready' = q
       /\ running' = c
       /\ UNCHANGED <<tasks, waiters>>
  ELSE LET j == CHOOSE x \in hit : \A y \in hit : x <= y IN
       CancelAndAwait(c, [r EXCEPT !.idx = j], motion_tasks[j], q)

\* emergency_stop()
EmergencyStop(c) ==
  /\ CanCall(c)
  /\ EmergencyStopFrom(c, [CallStart(c, "emergency_stop", 1) EXCEPT
                             !.mv = {a \in Axes : is_moving[a]}], 1, ready)
  /\ UNCHANGED <<connected, axisState, nextTask, lastWriter>>
  /\ UNCHANGED <<daemonVars, procedureVars>>

\* The loop of disconnect from axis k on, then `self._connected = False`.
DisconnectFrom(c, r, k, q) ==
  LET hit == {j \in k..NumAxes : Live(motion_tasks[j])} IN
  IF hit = {}
  THEN /\ connected' = FALSE
       /\ call' = [call EXCEPT ![c] = Returned(r, "ok")]
       /\ ready' = q
       /\ running' = c
       /\ UNCHANGED <<tasks, waiters>>
  ELSE LET j == CHOOSE x \in hit : \A y \in hit : x <= y IN
       /\ CancelAndAwait(c, [r EXCEPT !.idx = j], motion_tasks[j], q)
       /\ UNCHANGED connected

\* disconnect()
Disconnect(c) ==
  /\ CanCall(c)
  /\ DisconnectFrom(c, CallStart(c, "disconnect", 1), 1, ready)
  /\ UNCHANGED <<axisState, nextTask, lastWriter>>
  /\ UNCHANGED <<daemonVars, procedureVars>>

\* The outcome of `await asyncio.wait_for(task, timeout)` when the caller resumes.
WaitOutcome(r) ==
  IF r.to THEN "TimeoutError"
  ELSE IF tasks[r.t].st = "cancelled" THEN "CancelledError"
  ELSE "ok"

\* The event loop runs the handle of caller c: a new request starts executing, or
\* a suspended operation continues after its await.
Resume(c) ==
  LET r == call[c]
      q == Tail(ready)
  IN
  /\ AtHead(c)
  /\ CASE r.pc = "queued" ->
            /\ call' = [call EXCEPT ![c].pc = "ret"]
            /\ ready' = q
            /\ running' = c
            /\ UNCHANGED <<connected, axisState, tasks, nextTask, waiters>>
       [] r.pc = "slept" ->
            \* connect after its sleep
            /\ connected' = TRUE
            /\ call' = [call EXCEPT ![c] = Returned(r, "ok")]
            /\ ready' = q
            /\ running' = c
            /\ UNCHANGED <<axisState, tasks, nextTask, waiters>>
       [] r.pc = "await" /\ r.op = "disconnect" ->
            /\ DisconnectFrom(c, r, r.idx + 1, q)
            /\ UNCHANGED <<axisState, nextTask>>
       [] r.pc = "await" /\ r.op = "emergency_stop" ->
            /\ EmergencyStopFrom(c, r, r.idx + 1, q)
            /\ UNCHANGED <<connected, axisState, nextTask>>
       [] r.pc = "await" /\ r.op = "disable_servo" ->
            /\ DisableServoFinish(c, r)
            /\ ready' = q
            /\ running' = c
            /\ UNCHANGED <<connected, positions, is_homed, is_moving, motion_tasks,
                           tasks, nextTask, waiters>>
       [] r.pc = "await" /\ r.op \in {"move_axis", "home_axis"} /\ r.sub = "" ->
            /\ MoveStart(c, r, q)
            /\ UNCHANGED <<connected, positions, servo_enabled, is_homed, is_moving>>
       [] r.pc = "await" /\ r.op = "wait_for_motion_complete" ->
            /\ call' = [call EXCEPT ![c] = Returned(r, WaitOutcome(r))]
            /\ ready' = q
            /\ running' = c
            /\ UNCHANGED <<connected, axisState, tasks, nextTask, waiters>>
       [] r.pc = "await" /\ r.op = "home_axis" /\ r.sub = "wait" ->
            \* home_axis after `await self.wait_for_motion_complete(axis)`
            /\ call' = [call EXCEPT ![c] = Returned(r, WaitOutcome(r))]
            /\ is_homed' = IF WaitOutcome(r) = "ok"
                           THEN [is_homed EXCEPT ![r.axis] = TRUE] ELSE is_homed
            /\ ready' = q
            /\ running' = c
            /\ UNCHANGED <<connected, positions, servo_enabled, is_moving, motion_tasks,
                           tasks, nextTask, waiters>>
  /\ UNCHANGED lastWriter
  /\ UNCHANGED <<daemonVars, procedureVars>>

Next ==
  \/ \E t \in TaskIds : SimulateMotionStep(t)
  \/ \E t \in TaskIds : SleepTimer(t)
  \/ \E c \in Callers : Arrive(c)
  \/ \E c \in Callers : Resume(c)
  \/ \E c \in Callers : Yield(c)
  \/ \E c \in Callers : Connect(c)
  \/ \E c \in Callers : ConnectTimer(c)
  \/ \E c \in Callers : Disconnect(c)
  \/ \E c \in Callers, a \in Axes : EnableServo(c, a)
  \/ \E c \in Callers, a \in Axes : DisableServo(c, a)
  \/ \E c \in Callers, a \in Axes, req \in MoveRequests : MoveAxis(c, a, req, MaxTasks)
  \/ \E c \in Callers, a \in Axes : WaitForMotionComplete(c, a)
  \/ \E c \in Callers : EmergencyStop(c)

Spec == Init /\ [][Next]_vars

\* -------------------------------------------- callers working on one axis
\* The engine after connect() and enable_servo(X1), as the tests set it up.
InitX1 ==
  /\ connected = TRUE
  /\ positions = [a \in Axes |-> 0]
  /\ servo_enabled = [a \in Axes |-> a = 1]
  /\ is_homed = [a \in Axes |-> FALSE]
  /\ is_moving = [a \in Axes |-> FALSE]
  /\ motion_tasks = [a \in Axes |-> NoTask]
  /\ tasks = [t \in TaskIds |-> NoTaskRec]
  /\ nextTask = 1
  /\ waiters = [t \in TaskIds |-> <<>>]
  /\ ready = <<>>
  /\ running = 0
  /\ call = [c \in Callers |-> IdleCall]
  /\ lastWriter = [a \in Axes |-> NoTask]
  /\ DaemonInit
  /\ ProceduresIdle

\* The moves the callers of SpecX1 request.
MoveRequestsX1 ==
  { [target |-> 200, relative |-> FALSE, hasSpeed |-> FALSE, speed |-> 0],
    [target |-> 100, relative |-> TRUE,  hasSpeed |-> TRUE,  speed |-> 0] }

\* Concurrent callers that move, stop and switch off the one axis X1.
NextX1 ==
  \/ \E t \in TaskIds : SimulateMotionStep(t)
  \/ \E t \in TaskIds : SleepTimer(t)
  \/ \E c \in Callers : Arrive(c)
  \/ \E c \in Callers : Resume(c)
  \/ \E c \in Callers : Yield(c)
  \/ \E c \in Callers, req \in MoveRequestsX1 : MoveAxis(c, 1, req, MaxTasks + MoreTasks)
  \/ \E c \in Callers : DisableServo(c, 1)
  \/ \E c \in Callers : WaitForMotionComplete(c, 1)
  \/ \E c \in Callers : EmergencyStop(c)

SpecX1 == InitX1 /\ [][NextX1]_vars

\* ------------------------------------------------------------ EW51Daemon
\* start() as it would be if it refused to start only a daemon that is READY.
StartAllowedUnlessReady == state # "READY"

\* The guard of start(): `if self._state != DaemonState.STOPPED: return` negated.
StartAllowed == state = "STOPPED"

\* start() as it would be if its except clause left the state alone.
StartFailedStateKept == "STARTING"

\* except Exception: self._state = DaemonState.ERROR
StartFailedState == "ERROR"

\* The ways backend.connect() can end before it suspends: MockBackend.connect
\* always reaches its sleep, RealBackend.connect raises ConnectionError when the
\* DLL cannot be loaded.
ConnectEntryOutcomes == IF use_mock THEN {"suspend"} ELSE {"suspend", "raise"}

\* The ways backend.connect() can end after its sleep: MockBackend.connect sets
\* _connected and returns; RealBackend.connect can also give up before it sets
\* _connected, or raise after it has set it (turning on a servo fails).
ConnectOutcomes ==
  IF use_mock THEN {"ok"} ELSE {"ok", "raise", "raise_connected"}

\* The ways backend.disconnect() can act on a constructed backend: return without
\* suspending, suspend on the cancellation of a motion task (MockBackend), or
\* raise (RealBackend).
DisconnectOutcomes == IF use_mock THEN {"ok", "suspend"} ELSE {"ok", "raise"}

DaemonReturned(c, op, res) ==
  [dcall EXCEPT ![c] = [IdleDaemonCall EXCEPT !.op = op, !.res = res]]

\* start() from its entry to `await self._backend.connect()` or to its return.
DaemonStart(c) ==
  /\ dcall[c].pc = "idle"
  /\ IF ~StartAllowed
     THEN /\ dcall' = DaemonReturned(c, "start", "ignored")
          /\ UNCHANGED <<state, backend, instances>>
     ELSE /\ Len(instances) < MaxBackends
          /\ instances' = Append(instances, FALSE)
          /\ backend' = Len(instances) + 1
          /\ \E o \in ConnectEntryOutcomes :
               IF o = "raise"
               THEN /\ state' = StartFailedState
                    /\ dcall' = DaemonReturned(c, "start", "ConnectionError")
               ELSE /\ state' = "STARTING"
                    /\ dcall' = [dcall EXCEPT ![c] =
                                   [IdleDaemonCall EXCEPT !.op = "start", !.pc = "await",
                                                          !.inst = Len(instances) + 1]]
  /\ UNCHANGED <<use_mock, backendVars, procedureVars>>

\* start() after backend.connect() has ended.
DaemonStartResume(c) ==
  /\ dcall[c].pc = "await"
  /\ dcall[c].op = "start"
  /\ \E o \in ConnectOutcomes :
       /\ instances' = [instances EXCEPT ![dcall[c].inst] = IF o = "raise" THEN @ ELSE TRUE]
       /\ IF o = "ok"
          THEN /\ state' = "READY"
               /\ dcall' = DaemonReturned(c, "start", "ok")
          ELSE /\ state' = StartFailedState
               /\ dcall' = DaemonReturned(c, "start", "ConnectionError")
  /\ UNCHANGED <<use_mock, backend, backendVars, procedureVars>>

\* stop() from `self._backend = None` to its end.
DaemonStopFinish(c) ==
  /\ backend' = NoBackend
  /\ state' = "STOPPED"
  /\ dcall' = DaemonReturned(c, "stop", "ok")

\* stop() from its entry to a suspension inside backend.disconnect() or to its return.
DaemonStop(c) ==
  /\ dcall[c].pc = "idle"
  /\ IF state = "STOPPED"
     THEN /\ dcall' = DaemonReturned(c, "stop", "ignored")
          /\ UNCHANGED <<state, backend, instances>>
     ELSE IF backend = NoBackend
     THEN /\ state' = "STOPPED"
          /\ dcall' = DaemonReturned(c, "stop", "ok")
          /\ UNCHANGED <<backend, instances>>
     ELSE \E o \in DisconnectOutcomes :
            CASE o = "ok" ->
                   /\ instances' = [instances EXCEPT ![backend] = FALSE]
                   /\ DaemonStopFinish(c)
              [] o = "suspend" ->
                   /\ state' = "STOPPING"
                   /\ dcall' = [dcall EXCEPT ![c] =
                                  [IdleDaemonCall EXCEPT !.op = "stop", !.pc = "await",
                                                         !.inst = backend]]
                   /\ UNCHANGED <<backend, instances>>
              [] o = "raise" ->
                   /\ state' = "ERROR"
                   /\ dcall' = DaemonReturned(c, "stop", "Exception")
                   /\ UNCHANGED <<backend, instances>>
  /\ UNCHANGED <<use_mock, backendVars, procedureVars>>

\* stop() after the suspended backend.disconnect() has ended.
DaemonStopResume(c) ==
  /\ dcall[c].pc = "await"
  /\ dcall[c].op = "stop"
  /\ instances' = [instances EXCEPT ![dcall[c].inst] = FALSE]
  /\ DaemonStopFinish(c)
  /\ UNCHANGED <<use_mock, backendVars, procedureVars>>

\* A daemon constructed with either backend kind; its backend does not exist yet.
InitDaemon ==
  /\ connected = FALSE
  /\ positions = [a \in Axes |-> 0]
  /\ servo_enabled = [a \in Axes |-> FALSE]
  /\ is_homed = [a \in Axes |-> FALSE]
  /\ is_moving = [a \in Axes |-> FALSE]
  /\ motion_tasks = [a \in Axes |-> NoTask]
  /\ tasks = [t \in TaskIds |-> NoTaskRec]
  /\ nextTask = 1
  /\ waiters = [t \in TaskIds |-> <<>>]
  /\ ready = <<>>
  /\ running = 0
  /\ call = [c \in Callers |-> IdleCall]
  /\ lastWriter = [a \in Axes |-> NoTask]
  /\ use_mock \in BOOLEAN
  /\ state = "STOPPED"
  /\ backend = NoBackend
  /\ instances = <<>>
  /\ dcall = [c \in DaemonCallers |-> IdleDaemonCall]
  /\ ProceduresIdle

NextDaemon ==
  \/ \E c \in DaemonCallers : DaemonStart(c)
  \/ \E c \in DaemonCallers : DaemonStartResume(c)
  \/ \E c \in DaemonCallers : DaemonStop(c)
  \/ \E c \in DaemonCallers : DaemonStopResume(c)

SpecDaemon == InitDaemon /\ [][NextDaemon]_vars

\* ------------------------------------- callers that move, home and wait
\* The move the callers of SpecHome request besides homing.
MoveRequestsHome ==
  { [target |-> 200, relative |-> FALSE, hasSpeed |-> FALSE, speed |-> 0] }

\* Concurrent callers that move and home the one axis X1, wait for it with a
\* timeout, and switch its servo off.
NextHome ==
  \/ \E t \in TaskIds : SimulateMotionStep(t)
  \/ \E t \in TaskIds : SleepTimer(t)
  \/ \E c \in Callers : Arrive(c)
  \/ \E c \in Callers : Resume(c)
  \/ \E c \in Callers : Yield(c)
  \/ \E c \in Callers, req \in MoveRequestsHome : MoveAxis(c, 1, req, MaxTasks + 1)
  \/ \E c \in Callers : HomeAxis(c, 1, MaxTasks + 1)
  \/ \E c \in Callers : WaitForMotionComplete(c, 1)
  \/ \E c \in Callers : WaitTimeout(c)
  \/ \E c \in Callers : DisableServo(c, 1)

SpecHome == InitX1 /\ [][NextHome]_vars

\* ------------------------------------------- callers moving to the limits
\* Moves to and across the travel limits; the fast ones take one or two steps.
MoveRequestsBounds ==
  { [target |-> 500000,  relative |-> FALSE, hasSpeed |-> TRUE,  speed |-> 5000000],
    [target |-> -500000, relative |-> FALSE, hasSpeed |-> TRUE,  speed |-> 5000000],
    [target |-> 500001,  relative |-> FALSE, hasSpeed |-> FALSE, speed |-> 0],
    [target |-> -500001, relative |-> FALSE, hasSpeed |-> FALSE, speed |-> 0],
    [target |-> 1,       relative |-> TRUE,  hasSpeed |-> FALSE, speed |-> 0],
    [target |-> -1,      relative |-> TRUE,  hasSpeed |-> FALSE, speed |-> 0] }

\* Concurrent callers that move the one axis X1 to its limits and beyond.
NextBounds ==
  \/ \E t \in TaskIds : SimulateMotionStep(t)
  \/ \E t \in TaskIds : SleepTimer(t)
  \/ \E c \in Callers : Arrive(c)
  \/ \E c \in Callers : Resume(c)
  \/ \E c \in Callers : Yield(c)
  \/ \E c \in Callers, req \in MoveRequestsBounds : MoveAxis(c, 1, req, MaxTasks + 1)

SpecBounds == InitX1 /\ [][NextBounds]_vars

\* ------------------------------------------- operations that only read
\* get_axis_position as it would be without its connection check.
QueryResultNoConnectionCheck(r, val) == Returned([r EXCEPT !.val = val], "ok")

\* `if not self._connected: raise HardwareError`, then the return of a value read
\* from the state; val is the number get_axis_position returns, 0 for the other
\* operations, whose values the model does not keep.
QueryResult(r, val) ==
  IF ~connected THEN Returned(r, "HardwareError")
  ELSE Returned([r EXCEPT !.val = val], "ok")

\* get_axis_position(axis)
GetAxisPosition(c, a) ==
  /\ CanCall(c)
  /\ call' = [call EXCEPT ![c] = QueryResult(CallStart(c, "get_axis_position", a), positions[a])]
  /\ UNCHANGED <<connected, axisState, tasks, nextTask, waiters, ready, running,
                 lastWriter>>
  /\ UNCHANGED <<daemonVars, procedureVars>>

\* get_all_positions()
GetAllPositions(c) ==
  /\ CanCall(c)
  /\ call' = [call EXCEPT ![c] = QueryResult(CallStart(c, "get_all_positions", 1), 0)]
  /\ UNCHANGED <<connected, axisState, tasks, nextTask, waiters, ready, running,
                 lastWriter>>
  /\ UNCHANGED <<daemonVars, procedureVars>>

\* is_axis_moving(axis), the call
IsAxisMovingCall(c, a) ==
  /\ CanCall(c)
  /\ call' = [call EXCEPT ![c] = QueryResult(CallStart(c, "is_axis_moving", a), 0)]
  /\ UNCHANGED <<connected, axisState, tasks, nextTask, waiters, ready, running,
                 lastWriter>>
  /\ UNCHANGED <<daemonVars, procedureVars>>

\* is_servo_enabled(axis)
IsServoEnabled(c, a) ==
  /\ CanCall(c)
  /\ call' = [call EXCEPT ![c] = QueryResult(CallStart(c, "is_servo_enabled", a), 0)]
  /\ UNCHANGED <<connected, axisState, tasks, nextTask, waiters, ready, running,
                 lastWriter>>
  /\ UNCHANGED <<daemonVars, procedureVars>>

\* AxisStatus of the axis with number n as get_axis_status builds it. The axes
\* beyond those the callers of the model name are in the state __init__ gave them.
AxisStatusOf(n) ==
  IF n \in Axes
  THEN [axis |-> n, position |-> positions[n], servo_enabled |-> servo_enabled[n],
        is_moving |-> is_moving[n], is_homed |-> is_homed[n]]
  ELSE [axis |-> n, position |-> 0, servo_enabled |-> FALSE,
        is_moving |-> FALSE, is_homed |-> FALSE]

\* The result of get_axis_status and get_stage_status: HardwareError when the
\* backend is not connected, else the status.
StatusResult(r, status) ==
  IF ~connected THEN Returned(r, "HardwareError")
  ELSE Returned([r EXCEPT !.status = status], "ok")

\* get_axis_status(axis)
GetAxisStatus(c, a) ==
  /\ CanCall(c)
  /\ call' = [call EXCEPT ![c] = StatusResult(CallStart(c, "get_axis_status", a),
                                              AxisStatusOf(a))]
  /\ UNCHANGED <<connected, axisState, tasks, nextTask, waiters, ready, running,
                 lastWriter>>
  /\ UNCHANGED <<daemonVars, procedureVars>>

\* The two stages.
StageIds == {LeftStage, RightStage}

\* The axes of a stage as they would be if both stages had the axes of LEFT.
StageAxesOfLeft(stage) == <<1, 2, 3, 4, 5, 6>>

\* The axes get_stage_status reports for a stage, in the order of its list:
\* X1, Y1, Z1, TX1, TY1, TZ1 for LEFT, else X2, Y2, Z2, TX2, TY2, TZ2.
StageAxes(stage) ==
  IF stage = LeftStage THEN <<1, 2, 3, 4, 5, 6>> ELSE <<7, 8, 9, 10, 11, 12>>

\* StageStatus(stage_id, axes, angle_offset) as get_stage_status builds it.
StageStatusOf(stage) ==
  [stage_id |-> stage,
   axes |-> [j \in DOMAIN StageAxes(stage) |-> AxisStatusOf(StageAxes(stage)[j])],
   angle_offset |-> 0]

\* get_stage_status(stage): its awaits of get_axis_status never suspend.
GetStageStatus(c, stage) ==
  /\ CanCall(c)
  /\ call' = [call EXCEPT ![c] = StatusResult(CallStart(c, "get_stage_status", 1),
                                              StageStatusOf(stage))]
  /\ UNCHANGED <<connected, axisState, tasks, nextTask, waiters, ready, running,
                 lastWriter>>
  /\ UNCHANGED <<daemonVars, procedureVars>>

\* ------------------------------------------- one client using every operation
\* The client of SpecOps.
Client == CHOOSE c \in Callers : TRUE

\* One client that connects and disconnects, drives both axes and queries them.
NextOps ==
  \/ \E t \in TaskIds : SimulateMotionStep(t)
  \/ \E t \in TaskIds : SleepTimer(t)
  \/ Arrive(Client)
  \/ Resume(Client)
  \/ Yield(Client)
  \/ Connect(Client)
  \/ ConnectTimer(Client)
  \/ Disconnect(Client)
  \/ \E a \in Axes : EnableServo(Client, a)
  \/ \E a \in Axes : DisableServo(Client, a)
  \/ \E a \in Axes, req \in MoveRequests : MoveAxis(Client, a, req, MaxTasks)
  \/ \E a \in Axes : HomeAxis(Client, a, MaxTasks)
  \/ \E a \in Axes : WaitForMotionComplete(Client, a)
  \/ WaitTimeout(Client)
  \/ \E a \in Axes : GetAxisPosition(Client, a)
  \/ GetAllPositions(Client)
  \/ \E a \in Axes : IsAxisMovingCall(Client, a)
  \/ \E a \in Axes : IsServoEnabled(Client, a)
  \/ \E a \in Axes : GetAxisStatus(Client, a)
  \/ \E stage \in StageIds : GetStageStatus(Client, stage)

SpecOps == Init /\ [][NextOps]_vars

\* ------------------------------------- the daemon over the mock backend
\* The daemon's backend instance whose state the MockBackend variables hold.
MockInstance == 1

\* A daemon that start() has brought to READY over the mock backend, with the
\* servo of X1 enabled by a client.
InitStop ==
  /\ connected = TRUE
  /\ positions = [a \in Axes |-> 0]
  /\ servo_enabled = [a \in Axes |-> a = 1]
  /\ is_homed = [a \in Axes |-> FALSE]
  /\ is_moving = [a \in Axes |-> FALSE]
  /\ motion_tasks = [a \in Axes |-> NoTask]
  /\ tasks = [t \in TaskIds |-> NoTaskRec]
  /\ nextTask = 1
  /\ waiters = [t \in TaskIds |-> <<>>]
  /\ ready = <<>>
  /\ running = 0
  /\ call = [c \in Callers |-> IdleCall]
  /\ lastWriter = [a \in Axes |-> NoTask]
  /\ use_mock = TRUE
  /\ state = "READY"
  /\ backend = MockInstance
  /\ instances = <<TRUE>>
  /\ dcall = [c \in DaemonCallers |-> IdleDaemonCall]
  /\ ProceduresIdle

\* stop() with r its call record, inside `await self._backend.disconnect()` from
\* axis k of disconnect's loop on: when disconnect returns, stop() goes on to
\* `self._backend = None` and STOPPED without a suspension.
StopFrom(c, r, k, q) ==
  /\ DisconnectFrom(c, r, k, q)
  /\ instances' = [instances EXCEPT ![MockInstance] = connected']
  /\ IF call'[c].pc = "ret"
     THEN /\ backend' = NoBackend
          /\ state' = "STOPPED"
     ELSE /\ state' = "STOPPING"
          /\ UNCHANGED backend

\* stop() called by caller c, to its first suspension or its return.
StopOverMock(c) ==
  /\ CanCall(c)
  /\ LET r == CallStart(c, "stop", 1) IN
     IF state = "STOPPED"
     THEN /\ call' = [call EXCEPT ![c] = Returned(r, "ignored")]
          /\ UNCHANGED <<connected, tasks, waiters, ready, running, state, backend,
                         instances>>
     ELSE IF backend = NoBackend
     THEN /\ call' = [call EXCEPT ![c] = Returned(r, "ok")]
          /\ state' = "STOPPED"
          /\ UNCHANGED <<connected, tasks, waiters, ready, running, backend, instances>>
     ELSE StopFrom(c, r, 1, ready)
  /\ UNCHANGED <<axisState, nextTask, lastWriter, use_mock, dcall, procedureVars>>

\* stop() continues after a task that disconnect() awaited has ended.
StopOverMockResume(c) ==
  /\ AtHead(c)
  /\ call[c].pc = "await"
  /\ call[c].op = "stop"
  /\ StopFrom(c, call[c], call[c].idx + 1, Tail(ready))
  /\ UNCHANGED <<axisState, nextTask, lastWriter, use_mock, dcall, procedureVars>>

\* The event loop runs the handle of a caller that is not inside stop().
ResumeInBackend(c) ==
  /\ call[c].op # "stop"
  /\ Resume(c)

\* move_axis called on `daemon.backend`, which raises RuntimeError once stop() has
\* cleared the reference.
MoveOverDaemon(c, a, req) ==
  /\ backend # NoBackend
  /\ MoveAxis(c, a, req, MaxTasks)

\* Clients that move X1 through the daemon's backend while the daemon is stopped.
NextStop ==
  \/ \E t \in TaskIds : SimulateMotionStep(t)
  \/ \E t \in TaskIds : SleepTimer(t)
  \/ \E c \in Callers : Arrive(c)
  \/ \E c \in Callers : ResumeInBackend(c)
  \/ \E c \in Callers : Yield(c)
  \/ \E c \in Callers, req \in MoveRequestsHome : MoveOverDaemon(c, 1, req)
  \/ \E c \in Callers : StopOverMock(c)
  \/ \E c \in Callers : StopOverMockResume(c)

SpecStop == InitStop /\ [][NextStop]_vars

\* ------------------------------------------------- EW51Daemon.get_status
\* if self._state != DaemonState.READY: raise RuntimeError
GetStatusRefused == state # "READY"

\* The ways the two get_stage_status calls of get_status() can end: on no backend
\* the attribute access fails, a backend that is not connected raises
\* HardwareError, and RealBackend raises HardwareError when the driver fails.
StageStatusOutcomes ==
  IF backend = NoBackend THEN {"AttributeError"}
  ELSE IF ~instances[backend] THEN {"HardwareError"}
  ELSE IF use_mock THEN {"ok"}
  ELSE {"ok", "HardwareError"}

\* get_status(): neither backend's get_stage_status suspends.
GetStatus(c) ==
  /\ dcall[c].pc = "idle"
  /\ IF GetStatusRefused
     THEN dcall' = DaemonReturned(c, "get_status", "RuntimeError")
     ELSE \E o \in StageStatusOutcomes :
            IF o # "ok"
            THEN dcall' = DaemonReturned(c, "get_status", o)
            ELSE dcall' = [dcall EXCEPT ![c] =
                   [IdleDaemonCall EXCEPT
                      !.op = "get_status", !.res = "ok",
                      !.status = [daemon_state |-> state,
                                  left_stage |-> StageAxes(LeftStage),
                                  right_stage |-> StageAxes(RightStage),
                                  is_mock |-> use_mock,
                                  connection_established |-> instances[backend]]]]
  /\ UNCHANGED <<use_mock, state, backend, instances, backendVars, procedureVars>>

\* Callers that start and stop the daemon and ask for its status.
NextStatus ==
  \/ \E c \in DaemonCallers : DaemonStart(c)
  \/ \E c \in DaemonCallers : DaemonStartResume(c)
  \/ \E c \in DaemonCallers : DaemonStop(c)
  \/ \E c \in DaemonCallers : DaemonStopResume(c)
  \/ \E c \in DaemonCallers : GetStatus(c)

SpecStatus == InitDaemon /\ [][NextStatus]_vars

\* ------------------------------------------- move_multiple_axes (the route)
\* What a step of the route leaves alone.
allButMulti == <<daemonVars, backendVars, align, realVars, sim>>

\* The longest list of movements of a request.
MaxMovements == 3

\* The lists of movements of the requests, each movement named by its axis.
MovementLists ==
  UNION { [1..n -> Axes] : n \in 0..MaxMovements }

\* One call of the route on daemon.backend: the operation, the index of the
\* movement it is made for and whether it returned (ok) or raised.
BackendCall(op, i, ok) == [op |-> op, req |-> i, ok |-> ok]

\* One MovementResponse of the route.
MovementResponse(i, status) ==
  [req |-> i, axis |-> multi.movements[i], status |-> status]

\* The movement a loop of the route takes after movement i, as it would be
\* if a failure ended the loop.
NextMovementEndsOnFailure(i, ok) ==
  IF ok THEN i + 1 ELSE Len(multi.movements) + 1

\* The movement a loop of the route takes after movement i: the next one,
\* whether or not the call for movement i raised.
NextMovement(i, ok) == i + 1

\* overall_status after a call, as it would be if each call overwrote it.
OverallStatusOfLastCall(overall_status, ok) ==
  IF ok THEN "COMPLETED" ELSE "ERROR"

\* overall_status after a call of a try block: ERROR once any has raised.
OverallStatus(overall_status, ok) ==
  IF ok THEN overall_status ELSE "ERROR"

\* The loop that follows the loop of move_axis calls.
SecondLoop == IF multi.wait THEN "wait" ELSE "report"

\* The route is entered: responses = [], overall_status = COMPLETED.
MoveMultipleAxes(movements, wait) ==
  /\ multi.pc = "idle"
  /\ multi' = [IdleMulti EXCEPT !.pc = IF movements = <<>> THEN "returned" ELSE "start",
                                !.movements = movements, !.wait = wait, !.i = 1]
  /\ UNCHANGED allButMulti

\* One pass of the first loop: move_axis for movement i, which returns or raises.
StartMovement(ok) ==
  /\ multi.pc = "start"
  /\ LET n == NextMovement(multi.i, ok)
         last == n > Len(multi.movements)
     IN multi' = [multi EXCEPT
           !.calls = Append(@, BackendCall("move_axis", multi.i, ok)),
           !.overall_status = OverallStatus(@, ok),
           !.i = IF last THEN 1 ELSE n,
           !.pc = IF last THEN SecondLoop ELSE "start"]
  /\ UNCHANGED allButMulti

\* One pass of the waiting loop: wait_for_motion_complete and get_axis_position
\* in the try block and, when one of them raised (failed), get_axis_position
\* again in the handler, which ends the route when it raises too.
WaitForMovement(failed, handler_ok) ==
  /\ multi.pc = "wait"
  /\ LET i == multi.i
         tried == CASE failed = "none" ->
                         <<BackendCall("wait_for_motion_complete", i, TRUE),
                           BackendCall("get_axis_position", i, TRUE)>>
                    [] failed = "wait_for_motion_complete" ->
                         <<BackendCall("wait_for_motion_complete", i, FALSE)>>
                    [] failed = "get_axis_position" ->
                         <<BackendCall("wait_for_motion_complete", i, TRUE),
                           BackendCall("get_axis_position", i, FALSE)>>
         ok == failed = "none"
         handled == IF ok THEN <<>>
                    ELSE <<BackendCall("get_axis_position", i, handler_ok)>>
         n == NextMovement(i, ok)
     IN IF ~ok /\ ~handler_ok
        THEN multi' = [multi EXCEPT !.calls = @ \o tried \o handled, !.pc = "raised"]
        ELSE multi' = [multi EXCEPT
               !.calls = @ \o tried \o handled,
               !.responses = Append(@, MovementResponse(i, IF ok THEN "COMPLETED"
                                                                ELSE "ERROR")),
               !.overall_status = OverallStatus(@, ok),
               !.i = n,
               !.pc = IF n > Len(multi.movements) THEN "returned" ELSE "wait"]
  /\ UNCHANGED allButMulti

\* One pass of the loop of a request that does not wait: get_axis_position,
\* outside any try block.
ReportMovement(ok) ==
  /\ multi.pc = "report"
  /\ IF ~ok
     THEN multi' = [multi EXCEPT
            !.calls = Append(@, BackendCall("get_axis_position", multi.i, FALSE)),
            !.pc = "raised"]
     ELSE multi' = [multi EXCEPT
            !.calls = Append(@, BackendCall("get_axis_position", multi.i, TRUE)),
            !.responses = Append(@, MovementResponse(multi.i, "MOVING")),
            !.i = @ + 1,
            !.pc = IF multi.i + 1 > Len(multi.movements) THEN "returned" ELSE "report"]
  /\ UNCHANGED allButMulti

\* The response is sent, or the error; the route can serve the next request.
MultiDone ==
  /\ multi.pc \in {"returned", "raised"}
  /\ multi' = IdleMulti
  /\ UNCHANGED allButMulti

\* Requests to the route, over a backend whose calls return or raise.
NextMulti ==
  \/ \E movements \in MovementLists, wait \in BOOLEAN : MoveMultipleAxes(movements, wait)
  \/ \E ok \in BOOLEAN : StartMovement(ok)
  \/ \E failed \in {"none", "wait_for_motion_complete", "get_axis_position"},
        handler_ok \in BOOLEAN : WaitForMovement(failed, handler_ok)
  \/ \E ok \in BOOLEAN : ReportMovement(ok)
  \/ MultiDone

SpecMulti == Init /\ [][NextMulti]_vars

\* ---------------------------------- AlignmentController.wait_for_completion
\* What a step of wait_for_completion leaves alone.
allButAlign == <<daemonVars, backendVars, multi, realVars, sim>>

\* The longest timeout of a call, the longest poll interval and the longest time
\* by which a sleep or a read of the driver overruns, in units of the clock.
MaxTimeout == 2
MaxPollInterval == 2
MaxOverrun == 1

\* The most polls a call can make: one before each sleep, and every sleep takes
\* one unit of the clock or more; the record counts no further.
MaxPolls == MaxTimeout + 2

\* What the driver's GetStatus() can report: the six statuses and another string.
DriverStatuses == AlignmentStatuses \cup {"Busy"}

\* get_status(): the driver's string as an AlignmentStatus, ERROR when it is none.
AlignmentStatusOf(status_str) ==
  IF status_str \in AlignmentStatuses THEN status_str ELSE "Error"

\* _build_result_response(success, message), message "" for None: it reads the
\* driver's status again (status_str) and reports that one.
BuildResultResponse(success, message, status_str) ==
  LET status == AlignmentStatusOf(status_str)
  IN [success |-> success,
      status  |-> status,
      message |-> IF message # "" THEN message
                  ELSE IF success THEN "Success"
                  ELSE "Failed with status " \o status]

\* The clock after a sleep of poll_interval that overran by late, as it would
\* be if sleeping took no time.
AfterSleepNoTime(elapsed, poll_interval, late) == elapsed

\* The clock after `await asyncio.sleep(poll_interval)` that overran by late.
AfterSleep(elapsed, poll_interval, late) == elapsed + poll_interval + late

\* One pass of the loop as it would be if the timeout were checked before the
\* status that the pass has read.
PollFromTimeoutFirst(r, status_str, took, reread) ==
  LET status == AlignmentStatusOf(status_str)
      p == [r EXCEPT !.polls = IF @ < MaxPolls THEN @ + 1 ELSE @, !.polled = status]
      elapsed == r.elapsed + took
  IN IF elapsed > r.timeout
     THEN [p EXCEPT !.pc = "raised", !.elapsed = elapsed]
     ELSE CASE status = "Success" ->
                 [p EXCEPT !.pc = "returned",
                           !.result = BuildResultResponse(TRUE, "", reread)]
            [] status \in {"Failure", "Error"} ->
                 [p EXCEPT !.pc = "returned",
                           !.result = BuildResultResponse(FALSE, "", reread)]
            [] status = "Stopped" ->
                 [p EXCEPT !.pc = "returned",
                           !.result = BuildResultResponse(FALSE, "Stopped by user", reread)]
            [] OTHER -> [p EXCEPT !.pc = "sleep", !.elapsed = elapsed]

\* One pass of the loop of wait_for_completion on the call record r: the driver
\* reports status_str, the read took `took`, and reread is what the driver
\* reports to _build_result_response.
PollFrom(r, status_str, took, reread) ==
  LET status == AlignmentStatusOf(status_str)
      p == [r EXCEPT !.polls = IF @ < MaxPolls THEN @ + 1 ELSE @, !.polled = status]
      elapsed == r.elapsed + took
  IN CASE status = "Success" ->
            [p EXCEPT !.pc = "returned",
                      !.result = BuildResultResponse(TRUE, "", reread)]
       [] status \in {"Failure", "Error"} ->
            [p EXCEPT !.pc = "returned",
                      !.result = BuildResultResponse(FALSE, "", reread)]
       [] status = "Stopped" ->
            [p EXCEPT !.pc = "returned",
                      !.result = BuildResultResponse(FALSE, "Stopped by user", reread)]
       [] OTHER ->
            IF elapsed > r.timeout
            THEN [p EXCEPT !.pc = "raised", !.elapsed = elapsed]
            ELSE [p EXCEPT !.pc = "sleep", !.elapsed = elapsed]

\* wait_for_completion(timeout, poll_interval) is called: it runs to its first
\* sleep, or returns or raises.
WaitForCompletion(timeout, poll_interval, status_str, took, reread) ==
  /\ align.pc = "idle"
  /\ align' = PollFrom([IdleAlign EXCEPT !.timeout = timeout,
                                         !.poll_interval = poll_interval],
                       status_str, took, reread)
  /\ UNCHANGED allButAlign

\* The sleep ends and the loop makes its next pass.
WaitForCompletionWakes(late, status_str, took, reread) ==
  /\ align.pc = "sleep"
  /\ align' = PollFrom([align EXCEPT
                          !.elapsed = AfterSleep(@, align.poll_interval, late)],
                       status_str, took, reread)
  /\ UNCHANGED allButAlign

\* The caller has its result or its AlignmentError.
WaitForCompletionDone ==
  /\ align.pc \in {"returned", "raised"}
  /\ align' = IdleAlign
  /\ UNCHANGED allButAlign

\* Calls of wait_for_completion over a driver that reports any status at any time.
NextAlign ==
  \/ \E timeout \in 0..MaxTimeout, poll_interval \in 1..MaxPollInterval,
        status_str \in DriverStatuses, took \in 0..MaxOverrun,
        reread \in DriverStatuses :
       WaitForCompletion(timeout, poll_interval, status_str, took, reread)
  \/ \E late \in 0..MaxOverrun, status_str \in DriverStatuses, took \in 0..MaxOverrun,
        reread \in DriverStatuses :
       WaitForCompletionWakes(late, status_str, took, reread)
  \/ WaitForCompletionDone

SpecAlign == Init /\ [][NextAlign]_vars

\* The event loop wakes every sleeper.
SpecAlignFair ==
  /\ SpecAlign
  /\ WF_vars(\E late \in 0..MaxOverrun, status_str \in DriverStatuses,
                took \in 0..MaxOverrun, reread \in DriverStatuses :
               WaitForCompletionWakes(late, status_str, took, reread))

\* ------------------------------------------------------------- RealBackend
\* What a step of RealBackend leaves alone.
allButReal == <<daemonVars, backendVars, multi, align, sim>>

\* The most driver calls that fail during one operation over all the axes.
MaxFailing == 2

\* The sets of axis numbers whose driver calls fail during one operation.
FailingSets == { F \in SUBSET AxisNumbers : Cardinality(F) <= MaxFailing }

\* The longest timeout of a wait_for_motion_complete call, in units of the clock
\* in which its poll interval of 0.1 s is one.
MaxWaitTimeout == 2

\* The record of an operation that has returned or raised.
RealReturned(op, res) == [IdleRealCall EXCEPT !.op = op, !.pc = "done", !.res = res]

\* The ways connect() can end: "ok"; "load" when the DLL, the system instance or
\* the components cannot be had, or the controller does not report Connected;
\* "servo" when the servo of axis number k cannot be read or turned on, after
\* self._connected = True.
RealConnect(outcome, k) ==
  /\ rcall.pc = "idle"
  /\ CASE outcome = "ok" ->
            /\ real_connected' = TRUE
            /\ axis_components' = AxisNumbers
            /\ servo_on' = [n \in AxisNumbers |-> TRUE]
            /\ rcall' = RealReturned("connect", "ok")
       [] outcome = "load" ->
            /\ axis_components' = axis_components \cup (FirstAxisNumber..(k - 1))
            /\ rcall' = RealReturned("connect", "ConnectionError")
            /\ UNCHANGED <<real_connected, servo_on>>
       [] outcome = "servo" ->
            /\ real_connected' = TRUE
            /\ axis_components' = AxisNumbers
            /\ servo_on' = [n \in AxisNumbers |-> n < k \/ servo_on[n]]
            /\ rcall' = RealReturned("connect", "ConnectionError")
  /\ UNCHANGED allButReal

\* The loop of emergency_stop() over the components from axis number n on, as
\* it would be if the first failing driver call ended it.
RECURSIVE ServoOffLoopEndsOnFailure(_, _, _, _)
RECURSIVE ServoOffLoop(_, _, _, _)
ServoOffLoopEndsOnFailure(n, servo, attempted, failing) ==
  IF n > LastAxisNumber THEN [servo |-> servo, attempted |-> attempted]
  ELSE IF n \notin axis_components
       THEN ServoOffLoopEndsOnFailure(n + 1, servo, attempted, failing)
  ELSE IF n \in failing
       THEN [servo |-> servo, attempted |-> Append(attempted, n)]
  ELSE ServoOffLoopEndsOnFailure(n + 1, [servo EXCEPT ![n] = FALSE],
                                 Append(attempted, n), failing)

\* The loop of disconnect() and of emergency_stop() over the components from
\* axis number n on: IsServoOn() and TurnOffServo() for each in turn, a failing
\* driver call being logged and the loop going on. It gives the servo state
\* the driver is left in and the axis numbers attempted, in order.
ServoOffLoop(n, servo, attempted, failing) ==
  IF n > LastAxisNumber THEN [servo |-> servo, attempted |-> attempted]
  ELSE IF n \notin axis_components
       THEN ServoOffLoop(n + 1, servo, attempted, failing)
  ELSE IF n \in failing
       THEN ServoOffLoop(n + 1, servo, Append(attempted, n), failing)
  ELSE ServoOffLoop(n + 1, [servo EXCEPT ![n] = FALSE], Append(attempted, n), failing)

\* The elements of a sequence.
Range(seq) == { seq[j] : j \in DOMAIN seq }

\* disconnect(): servos off where the driver allows, then everything dropped.
RealDisconnect(failing) ==
  /\ rcall.pc = "idle"
  /\ LET loop == ServoOffLoop(FirstAxisNumber, servo_on, <<>>, failing)
     IN /\ servo_on' = loop.servo
        /\ rcall' = [RealReturned("disconnect", "ok") EXCEPT
                       !.attempted = loop.attempted,
                       !.failing = failing \cap axis_components]
  /\ axis_components' = {}
  /\ real_connected' = FALSE
  /\ UNCHANGED allButReal

\* enable_servo(axis) and disable_servo(axis): ServoError when the backend is
\* not connected or the driver call fails (ok false).
RealSwitchServo(n, on, ok) ==
  /\ rcall.pc = "idle"
  /\ IF real_connected /\ n \in axis_components /\ ok
     THEN /\ servo_on' = [servo_on EXCEPT ![n] = on]
          /\ rcall' = [RealReturned(IF on THEN "enable_servo" ELSE "disable_servo", "ok")
                         EXCEPT !.axis = n]
     ELSE /\ rcall' = [RealReturned(IF on THEN "enable_servo" ELSE "disable_servo",
                                    "ServoError") EXCEPT !.axis = n]
          /\ UNCHANGED servo_on
  /\ UNCHANGED <<real_connected, axis_components>>
  /\ UNCHANGED allButReal

\* emergency_stop(): a no-op when not connected; else the servo of every
\* component is turned off, a failing driver call being logged and passed over.
RealEmergencyStop(failing) ==
  /\ rcall.pc = "idle"
  /\ IF ~real_connected
     THEN /\ rcall' = RealReturned("emergency_stop", "ok")
          /\ UNCHANGED servo_on
     ELSE LET loop == ServoOffLoop(FirstAxisNumber, servo_on, <<>>, failing)
          IN /\ servo_on' = loop.servo
             /\ rcall' = [RealReturned("emergency_stop", "ok") EXCEPT
                            !.attempted = loop.attempted,
                            !.failing = failing \cap axis_components]
  /\ UNCHANGED <<real_connected, axis_components>>
  /\ UNCHANGED allButReal

\* What the driver's GetStatus() of an axis can report.
AxisDriverStatuses == {"InPosition", "Error", "Moving"}

\* Whether wait_for_motion_complete gives up after a poll, as it would if it
\* never did.
TimedOutNever(elapsed, timeout) == FALSE

\* Whether wait_for_motion_complete gives up after a poll: elapsed > timeout.
TimedOut(elapsed, timeout) == elapsed > timeout

\* One pass of the loop of wait_for_motion_complete on the call record r: the
\* driver reports status and the read took `took`.
RealPollFrom(r, status, took) ==
  LET p == [r EXCEPT !.polls = IF @ < MaxWaitTimeout + 2 THEN @ + 1 ELSE @,
                     !.polled = status]
      elapsed == r.elapsed + took
  IN CASE status = "InPosition" -> [p EXCEPT !.pc = "done", !.res = "ok"]
       [] status = "Error" -> [p EXCEPT !.pc = "done", !.res = "MovementError"]
       [] OTHER ->
            IF TimedOut(elapsed, r.timeout)
            THEN [p EXCEPT !.pc = "done", !.res = "TimeoutError", !.elapsed = elapsed]
            ELSE [p EXCEPT !.pc = "sleep", !.elapsed = elapsed]

\* wait_for_motion_complete(axis, timeout) is called: HardwareError from
\* _get_axis_component when not connected, else the loop to its first sleep.
RealWaitForMotionComplete(n, timeout, status, took) ==
  /\ rcall.pc = "idle"
  /\ IF ~real_connected \/ n \notin axis_components
     THEN rcall' = [RealReturned("wait_for_motion_complete", "HardwareError")
                      EXCEPT !.axis = n, !.timeout = timeout]
     ELSE rcall' = RealPollFrom([IdleRealCall EXCEPT !.op = "wait_for_motion_complete",
                                                      !.axis = n, !.timeout = timeout],
                                status, took)
  /\ UNCHANGED <<real_connected, axis_components, servo_on>>
  /\ UNCHANGED allButReal

\* The sleep of 0.1 s ends, late by `late`, and the loop makes its next pass.
RealWaitWakes(late, status, took) ==
  /\ rcall.pc = "sleep"
  /\ rcall' = RealPollFrom([rcall EXCEPT !.elapsed = @ + 1 + late], status, took)
  /\ UNCHANGED <<real_connected, axis_components, servo_on>>
  /\ UNCHANGED allButReal

\* Whether a driver status means that the axis moves, as it would be if an
\* axis in error counted as stopped.
StatusMeansMovingUnlessError(status) == status \notin {"InPosition", "Error"}

\* Whether a driver status means that the axis moves: `status != "InPosition"`.
StatusMeansMoving(status) == status # "InPosition"

\* is_axis_moving(axis): the driver reports status, or its GetStatus() raises
\* (driver_ok false); a backend that is not connected, a missing component and
\* a driver failure all give HardwareError.
RealIsAxisMoving(n, status, driver_ok) ==
  /\ rcall.pc = "idle"
  /\ IF ~real_connected \/ n \notin axis_components \/ ~driver_ok
     THEN rcall' = [RealReturned("is_axis_moving", "HardwareError") EXCEPT !.axis = n]
     ELSE rcall' = [RealReturned("is_axis_moving", "ok") EXCEPT
                      !.axis = n, !.polled = status,
                      !.moving = StatusMeansMoving(status)]
  /\ UNCHANGED <<real_connected, axis_components, servo_on>>
  /\ UNCHANGED allButReal

\* get_axis_status(axis): get_axis_position, is_servo_enabled and is_axis_moving
\* in turn; a failure of any of them gives HardwareError.
RealGetAxisStatus(n, status, driver_ok) ==
  /\ rcall.pc = "idle"
  /\ IF ~real_connected \/ n \notin axis_components \/ ~driver_ok
     THEN rcall' = [RealReturned("get_axis_status", "HardwareError") EXCEPT !.axis = n]
     ELSE rcall' = [RealReturned("get_axis_status", "ok") EXCEPT
                      !.axis = n, !.polled = status, !.servo = servo_on[n],
                      !.moving = StatusMeansMoving(status)]
  /\ UNCHANGED <<real_connected, axis_components, servo_on>>
  /\ UNCHANGED allButReal

\* The caller has the outcome of its operation.
RealDone ==
  /\ rcall.pc = "done"
  /\ rcall' = IdleRealCall
  /\ UNCHANGED <<real_connected, axis_components, servo_on>>
  /\ UNCHANGED allButReal

\* One client of a RealBackend that connects, switches servos and stops, over
\* a driver whose calls can fail.
NextReal ==
  \/ \E outcome \in {"ok", "load", "servo"}, k \in AxisNumbers : RealConnect(outcome, k)
  \/ \E failing \in FailingSets : RealDisconnect(failing)
  \/ \E n \in AxisNumbers, on \in BOOLEAN, ok \in BOOLEAN : RealSwitchServo(n, on, ok)
  \/ \E failing \in FailingSets : RealEmergencyStop(failing)
  \/ RealDone

SpecReal == Init /\ [][NextReal]_vars

\* One client of a RealBackend that connects and waits for motions to end.
NextRealWait ==
  \/ \E outcome \in {"ok", "load", "servo"}, k \in AxisNumbers : RealConnect(outcome, k)
  \/ \E failing \in FailingSets : RealDisconnect(failing)
  \/ \E n \in AxisNumbers, timeout \in 0..MaxWaitTimeout,
        status \in AxisDriverStatuses, took \in 0..MaxOverrun :
       RealWaitForMotionComplete(n, timeout, status, took)
  \/ \E late \in 0..MaxOverrun, status \in AxisDriverStatuses, took \in 0..MaxOverrun :
       RealWaitWakes(late, status, took)
  \/ \E n \in AxisNumbers, status \in AxisDriverStatuses, driver_ok \in BOOLEAN :
       RealIsAxisMoving(n, status, driver_ok)
  \/ \E n \in AxisNumbers, status \in AxisDriverStatuses, driver_ok \in BOOLEAN :
       RealGetAxisStatus(n, status, driver_ok)
  \/ RealDone

SpecRealWait == Init /\ [][NextRealWait]_vars

\* The event loop wakes every sleeper.
SpecRealWaitFair ==
  /\ SpecRealWait
  /\ WF_vars(\E late \in 0..MaxOverrun, status \in AxisDriverStatuses,
                took \in 0..MaxOverrun : RealWaitWakes(late, status, took))

\* ------------------------------------------ the two engines of the daemon
\* What the driver does during one move_axis call of RealBackend: every call
\* works ("ok"), IsServoOn() raises ("servo_raises"), MoveAbsolute() or
\* MoveRelative() returns an error ("move_error") or raises ("move_raises").
MoveDriverOutcomes == {"ok", "servo_raises", "move_error", "move_raises"}

\* How move_axis of RealBackend ends, as it would if it did not look at the servo.
RealMoveResultIgnoringServo(n, driver) ==
  IF ~real_connected \/ n \notin axis_components THEN "MovementError"
  ELSE IF driver = "servo_raises" THEN "MovementError"
  ELSE IF driver \in {"move_error", "move_raises"} THEN "MovementError"
  ELSE "ok"

\* How move_axis of RealBackend ends: the HardwareError of _get_axis_component
\* and any exception of the driver become MovementError, a servo that is off
\* gives ServoError, an error returned by the move gives MovementError.
RealMoveResult(n, driver) ==
  IF ~real_connected \/ n \notin axis_components THEN "MovementError"
  ELSE IF driver = "servo_raises" THEN "MovementError"
  ELSE IF ~servo_on[n] THEN "ServoError"
  ELSE IF driver \in {"move_error", "move_raises"} THEN "MovementError"
  ELSE "ok"

\* move_axis(axis, target, relative, speed) of RealBackend: the move is handed
\* to the driver, which carries it out on its own.
RealMoveAxis(n, driver) ==
  /\ rcall.pc = "idle"
  /\ rcall' = [RealReturned("move_axis", RealMoveResult(n, driver)) EXCEPT !.axis = n]
  /\ UNCHANGED <<real_connected, axis_components, servo_on>>
  /\ UNCHANGED allButReal

\* EW51Daemon.__init__(use_mock) and the engine start() will make for it, before
\* anything is asked of the engine.
InitEngines ==
  /\ connected = FALSE
  /\ positions = [a \in Axes |-> 0]
  /\ servo_enabled = [a \in Axes |-> FALSE]
  /\ is_homed = [a \in Axes |-> FALSE]
  /\ is_moving = [a \in Axes |-> FALSE]
  /\ motion_tasks = [a \in Axes |-> NoTask]
  /\ tasks = [t \in TaskIds |-> NoTaskRec]
  /\ nextTask = 1
  /\ waiters = [t \in TaskIds |-> <<>>]
  /\ ready = <<>>
  /\ running = 0
  /\ call = [c \in Callers |-> IdleCall]
  /\ lastWriter = [a \in Axes |-> NoTask]
  /\ use_mock \in BOOLEAN
  /\ state = "STOPPED"
  /\ backend = NoBackend
  /\ instances = <<>>
  /\ dcall = [c \in DaemonCallers |-> IdleDaemonCall]
  /\ ProceduresIdle

\* One client that connects, switches servos, moves and stops in an emergency,
\* on the engine of the daemon: MockBackend when use_mock, else RealBackend.
NextEngines ==
  \/ \E t \in TaskIds : use_mock /\ SimulateMotionStep(t)
  \/ \E t \in TaskIds : use_mock /\ SleepTimer(t)
  \/ use_mock /\ Arrive(Client)
  \/ use_mock /\ Resume(Client)
  \/ use_mock /\ Connect(Client)
  \/ use_mock /\ ConnectTimer(Client)
  \/ \E a \in Axes : use_mock /\ EnableServo(Client, a)
  \/ \E a \in Axes : use_mock /\ DisableServo(Client, a)
  \/ \E a \in Axes, req \in MoveRequests : use_mock /\ MoveAxis(Client, a, req, MaxTasks)
  \/ use_mock /\ EmergencyStop(Client)
  \/ \E outcome \in {"ok", "load", "servo"}, k \in AxisNumbers :
       ~use_mock /\ RealConnect(outcome, k)
  \/ \E n \in AxisNumbers, on \in BOOLEAN, ok \in BOOLEAN :
       ~use_mock /\ RealSwitchServo(n, on, ok)
  \/ \E n \in AxisNumbers, driver \in MoveDriverOutcomes :
       ~use_mock /\ RealMoveAxis(n, driver)
  \/ \E failing \in FailingSets : ~use_mock /\ RealEmergencyStop(failing)
  \/ ~use_mock /\ RealDone

SpecEngines == InitEngines /\ [][NextEngines]_vars

\* ----------------------------------- one motion task, in floating point
\* What a step of the axis in floating point leaves alone.
allButSim == <<daemonVars, backendVars, multi, align, realVars>>

\* The significant bits of a float of the model (a Python float has 53). The
\* values are whole micrometres: a float is an integer n with n = m * 2^k for
\* some m of at most FloatBits bits.
FloatBits == 14

Min(a, b) == IF a <= b THEN a ELSE b

\* The number of bits of the natural number n.
RECURSIVE BitLength(_)
BitLength(n) == IF n = 0 THEN 0 ELSE 1 + BitLength(n \div 2)

\* The float nearest to the integer n: the result of a float addition or
\* subtraction whose exact value is n.
Fl(n) ==
  LET a == Abs(n)
      k == Max(BitLength(a) - FloatBits, 0)
      m == RoundDiv(a, 2^k) * 2^k
  IN IF n < 0 THEN -m ELSE m

\* The exponent e of the float i / steps: the least with (i * 2^e) / steps of
\* FloatBits bits (0 < i <= steps).
RECURSIVE ProgressExp(_, _, _)
ProgressExp(i, steps, e) ==
  IF (i * 2^e) \div steps >= 2^(FloatBits - 1) THEN e ELSE ProgressExp(i, steps, e + 1)

\* progress = i / steps, a float m / 2^e.
Progress(i, steps) ==
  IF i = 0 THEN [m |-> 0, e |-> 0]
  ELSE LET e == ProgressExp(i, steps, 0)
       IN [m |-> RoundDiv(i * 2^e, steps), e |-> e]

\* x * progress for the float x: the exact product of the two mantissas,
\* rounded once to FloatBits bits and to whole micrometres.
TimesProgress(x, p) ==
  LET a == Abs(x)
      k == Max(BitLength(a) - FloatBits, 0)
      n == (a \div 2^k) * p.m
      shift == p.e - k
      v == IF shift <= 0 THEN Fl(n * 2^(0 - shift))
           ELSE LET s == Max(shift, BitLength(n) - FloatBits)
                IN RoundDiv(n, 2^s) * 2^(s - shift)
  IN IF x < 0 THEN -v ELSE v

\* start + (target - start) * progress, progress = i / steps, in floats
FloatInterp(start, target, i, steps) ==
  Fl(start + TimesProgress(Fl(target - start), Progress(i, steps)))

\* The moves the client requests: every target and speed is a float of the model.
MoveRequestsMotion ==
  { [target |-> 500000,  relative |-> FALSE, hasSpeed |-> TRUE,  speed |-> 6000000],
    [target |-> -100040, relative |-> FALSE, hasSpeed |-> TRUE,  speed |-> 3000000],
    [target |-> 0,       relative |-> FALSE, hasSpeed |-> TRUE,  speed |-> 0],
    [target |-> 500032,  relative |-> FALSE, hasSpeed |-> TRUE,  speed |-> 6000000],
    [target |-> 300,     relative |-> TRUE,  hasSpeed |-> FALSE, speed |-> 0],
    [target |-> 0,       relative |-> TRUE,  hasSpeed |-> TRUE,  speed |-> 6000000] }

\* The most move_axis calls the client makes.
MaxSimMoves == 3

\* The axis after a live task was cancelled and awaited: CancelledError reaches
\* the task at its sleep and `finally` clears is_moving; a task that never ran
\* ends without entering `try`.
SimCancelled ==
  IF sim.pc = "idle" THEN sim
  ELSE [sim EXCEPT !.pc = "idle", !.ended = "cancelled",
                   !.is_moving = IF sim.pc = "sleep" THEN FALSE ELSE @]

\* move_axis(axis, target, relative, speed) of the client: the live task, if any,
\* is cancelled and awaited, the target resolved from the position then read and
\* checked against the travel limit, and the task of the move created.
SimMoveAxis(req) ==
  LET c == SimCancelled
      start_pos == c.position
      actual_target == IF req.relative THEN Fl(start_pos + req.target) ELSE req.target
      motion_speed == MotionSpeed(req)
  IN
  /\ sim.moves < MaxSimMoves
  /\ IF OutOfBounds(actual_target)
     THEN sim' = [c EXCEPT !.res = "MovementError", !.moves = @ + 1]
     ELSE sim' = [c EXCEPT !.pc = "new", !.moves = @ + 1, !.start = start_pos, !.target = actual_target,
                           !.speed = motion_speed,
                           !.steps = Steps(0, Fl(actual_target - start_pos), motion_speed),
                           !.i = 0, !.updates = 0, !.sleeps = 0, !.ended = "none",
                           !.res = "ok"]
  /\ UNCHANGED allButSim

\* The task of _simulate_motion runs from one suspension to the next: an
\* increment of the loop (write, then sleep), or after the loop the write of the
\* target and `finally`.
SimulateMotionRuns ==
  /\ sim.pc \in {"new", "sleep"}
  /\ IF sim.i <= sim.steps
     THEN sim' = [sim EXCEPT !.pc = "sleep", !.is_moving = TRUE,
                             !.position = FloatInterp(sim.start, sim.target, sim.i,
                                                      sim.steps),
                             !.i = @ + 1, !.updates = @ + 1, !.sleeps = @ + 1]
     ELSE sim' = [sim EXCEPT !.pc = "idle", !.is_moving = FALSE,
                             !.position = sim.target, !.ended = "completed"]
  /\ UNCHANGED allButSim

\* emergency_stop() of the client: the task of an axis flagged as moving is
\* cancelled and awaited; an axis whose task has not run yet is passed over.
SimEmergencyStop ==
  /\ sim' = IF sim.is_moving THEN SimCancelled ELSE sim
  /\ UNCHANGED allButSim

\* One client moving and stopping one axis of a MockBackend.
NextMotion ==
  \/ \E req \in MoveRequestsMotion : SimMoveAxis(req)
  \/ SimulateMotionRuns
  \/ SimEmergencyStop

SpecMotion == Init /\ [][NextMotion]_vars

\* ------------------------------------------------------------ the claims
\* is_axis_moving(axis) on a connected backend
IsAxisMoving(a) == is_moving[a]

\* Caller c is at the moment operation op has returned or raised.
AtReturn(c, op) == running = c /\ call[c].pc = "ret" /\ call[c].op = op

\* The step in which caller c calls operation op.
CallStep(c, op) == CanCall(c) /\ call'[c] # call[c] /\ call'[c].op = op

\* The step in which operation op of caller c returns or raises after an await.
ResumeStep(c, op) == call[c].pc = "await" /\ call[c].op = op /\ call'[c].pc = "ret"

\* C1: no axis ever has two motion tasks that are live (created and not yet
\* finished or cancelled) at the same time.
C1_AtMostOneLiveTask == \A a \in Axes : Cardinality(LiveTasks(a)) <= 1

\* C2: in every reachable state and for every axis, is_moving is true if and only
\* if a motion task of the axis has been created and has not completed or been
\* cancelled (so it is true from the moment an accepted move_axis returns).
C2_MovingIffLiveTask == \A a \in Axes : is_moving[a] <=> LiveTasks(a) # {}

\* C3: when move_axis replaces a live task, the prior task is done when the new one
\* exists, the new task starts at the position at which the prior task stopped, and
\* a task never writes the position after another task has written it in between.
C3_Replacement ==
  /\ \A c \in Callers :
       ResumeStep(c, "move_axis") /\ call'[c].res = "ok" =>
          /\ Done(call[c].t)
          /\ ~call[c].dirty
          /\ tasks'[call'[c].made].start = positions[call[c].axis]
  /\ \A t \in TaskIds :
       /\ tasks[t].i > 0 /\ ~Done(t)
       /\ tasks'[t].i > tasks[t].i \/ tasks'[t].st = "done"
       => lastWriter[tasks[t].axis] = t

C3_ReplacementNeverInterleaves == [][C3_Replacement]_vars

\* C4: when emergency_stop returns, no axis has a live motion task, a task that
\* move_axis created just before and that has not run its first step included.
C4_EmergencyStopLeavesNoLiveTask ==
  \A c \in Callers : AtReturn(c, "emergency_stop") => \A a \in Axes : LiveTasks(a) = {}

\* C5: when emergency_stop returns, is_axis_moving is false for every axis that
\* was moving when it was called.
C5_StoppedAxesNotMoving ==
  \A c \in Callers : AtReturn(c, "emergency_stop") =>
     \A a \in call[c].mv : ~IsAxisMoving(a)

\* C6: when emergency_stop is called right after an accepted absolute move_axis to
\* a target T other than the current position, then at its return is_axis_moving
\* is false and the position is strictly between the start position and T.
C6_InterruptedStrictlyBetween ==
  \A c \in Callers :
     /\ AtReturn(c, "emergency_stop")
     /\ call[c].prevMade # NoTask
     /\ call[c].prevTarget # call[c].prevStart
     => LET a == call[c].prevAxis
            lo == IF call[c].prevStart < call[c].prevTarget
                  THEN call[c].prevStart ELSE call[c].prevTarget
            hi == IF call[c].prevStart < call[c].prevTarget
                  THEN call[c].prevTarget ELSE call[c].prevStart
        IN /\ ~IsAxisMoving(a)
           /\ lo < positions[a] /\ positions[a] < hi

\* C7: after disable_servo(axis) has returned and until the next enable_servo(axis),
\* that is, in every state in which the servo flag of the axis is off, the axis has
\* no live motion task.
C7_NoTaskOnServoOffAxis == \A a \in Axes : ~servo_enabled[a] => LiveTasks(a) = {}

\* C8: for an axis whose is_moving flag is true when disable_servo is called on a
\* connected backend, is_moving is false and servo_enabled is false at the moment
\* disable_servo returns.
C8_DisableServoStopsMoving ==
  \A c \in Callers : AtReturn(c, "disable_servo") /\ call[c].res = "ok" =>
     \A a \in call[c].mv : ~is_moving[a] /\ ~servo_enabled[a]

\* C9: move_axis on a connected backend for an axis whose servo is disabled fails
\* with ServoError, whatever the target, mode and speed, and leaves position,
\* is_moving, is_homed, servo flag and task slot of the axis (and every task) as
\* they were.
C9_ServoOffMove ==
  \A c \in Callers :
     CallStep(c, "move_axis") /\ connected /\ ~servo_enabled[call'[c].axis] =>
        /\ call'[c].pc = "ret"
        /\ call'[c].res = "ServoError"
        /\ UNCHANGED <<connected, axisState, tasks, nextTask, waiters, ready>>

C9_ServoOffMoveRejectedUnchanged == [][C9_ServoOffMove]_vars

\* C9 witness: a relative move on a connected axis that has been moved away from 0
\* and whose servo is off has been rejected with ServoError.
C9_Witness ==
  \E c \in Callers :
     /\ AtReturn(c, "move_axis") /\ call[c].res = "ServoError"
     /\ call[c].req.relative
     /\ connected /\ positions[call[c].axis] # 0

\* C10: a move_axis call that is rejected (not connected, servo disabled, target
\* out of bounds) has touched no state: a call rejected at once leaves the engine
\* as it was, and a call rejected as out of bounds on an axis with a live task
\* leaves that task live and is_moving as it was at the call.
C10_Rejected ==
  \A c \in Callers :
     /\ CallStep(c, "move_axis") /\ call'[c].pc = "ret" /\ call'[c].res # "ok"
        => UNCHANGED <<connected, axisState, tasks, nextTask, waiters, ready>>
     /\ ResumeStep(c, "move_axis") /\ call'[c].res = "MovementError"
        => /\ tasks'[call[c].t].st \notin {"done", "cancelled"}
           /\ \A a \in call[c].mv : is_moving'[a]

C10_RejectedMoveTouchesNothing == [][C10_Rejected]_vars

\* The step in which caller c calls start() of the daemon.
StartCall(c) == dcall[c].pc = "idle" /\ dcall'[c] # dcall[c] /\ dcall'[c].op = "start"

\* C20: start() called in a state other than STOPPED returns at once without
\* raising and leaves the daemon state, the backend reference and the set of
\* constructed backends and their connection flags unchanged.
C20_StartNoOp ==
  \A c \in DaemonCallers :
     StartCall(c) /\ state # "STOPPED" =>
        /\ dcall'[c].pc = "idle"
        /\ dcall'[c].res = "ignored"
        /\ UNCHANGED <<state, backend, instances>>

C20_StartOutsideStoppedIsNoOp == [][C20_StartNoOp]_vars

\* C20 witness: a start() was ignored while another start() is STARTING.
C20_Witness ==
  \E c \in DaemonCallers :
     /\ dcall[c].op = "start" /\ dcall[c].res = "ignored" /\ dcall[c].pc = "idle"
     /\ state = "STARTING"

\* C12: when disconnect returns, the backend is not connected and no axis has a
\* live motion task, whatever other callers did while disconnect was awaiting.
C12_DisconnectLeavesNoLiveTask ==
  \A c \in Callers : AtReturn(c, "disconnect") =>
     ~connected /\ \A a \in Axes : LiveTasks(a) = {}

\* The operations that cancel a motion task and await it.
CancellerOps == {"move_axis", "home_axis", "disable_servo", "emergency_stop", "disconnect"}

\* The axis of the task that the suspended operation r has cancelled.
CancelledAxis(r) == IF r.op \in {"emergency_stop", "disconnect"} THEN r.idx ELSE r.axis

\* The step in which caller c continues after `await task` of a cancelled task.
CancellerResumes(c) ==
  /\ AtHead(c)
  /\ call[c].pc = "await" /\ call[c].op \in CancellerOps /\ call[c].sub = ""
  /\ call'[c] # call[c]

\* C13: a started motion task that is cancelled ends at its next step with
\* is_moving false and the position as it was; when the operation that cancelled
\* it continues, the task is cancelled and is_moving of its axis is false; a task
\* that is done never changes again and writes no position; a task that completes
\* also ends with is_moving false.
C13_Cleanup ==
  /\ \A c \in Callers :
       CancellerResumes(c) =>
          /\ tasks[call[c].t].st = "cancelled"
          /\ tasks[call[c].t].i > 0 => ~is_moving[CancelledAxis(call[c])]
  /\ \A t \in TaskIds :
       /\ tasks[t].st \notin {"none", "new", "done", "cancelled"} /\ tasks'[t].st = "cancelled"
          => /\ ~is_moving'[tasks[t].axis]
             /\ positions' = positions
       /\ tasks[t].st \notin {"none", "done", "cancelled"} /\ tasks'[t].st = "done"
          => ~is_moving'[tasks[t].axis]
       /\ Done(t) => tasks'[t] = tasks[t]
  /\ positions' # positions => \E t \in TaskIds : AtHead(t) /\ ~Done(t)

C13_CancelledTaskCleansUp == [][C13_Cleanup]_vars

\* C16: when a caller's accepted move_axis is followed by its wait_for_motion_complete
\* and the move's task runs to completion without being cancelled, then at the
\* return of the wait the position of the axis equals the resolved target of the
\* move and is_moving is false.
C16_CompletedMoveReachesTarget ==
  \A c \in Callers :
     /\ AtReturn(c, "wait_for_motion_complete") /\ call[c].res = "ok"
     /\ call[c].prevMade # NoTask /\ call[c].t = call[c].prevMade
     /\ tasks[call[c].t].st = "done"
     => /\ positions[call[c].prevAxis] = call[c].prevTarget
        /\ ~is_moving[call[c].prevAxis]

\* C15: wait_for_motion_complete on a connected backend for an axis that has no
\* live motion task returns at once without error and changes nothing.
C15_IdleWait ==
  \A c \in Callers :
     /\ CallStep(c, "wait_for_motion_complete")
     /\ connected /\ LiveTasks(call'[c].axis) = {}
     => /\ call'[c].pc = "ret"
        /\ call'[c].res = "ok"
        /\ UNCHANGED <<connected, axisState, tasks, nextTask, waiters, ready, running>>

C15_IdleWaitReturnsAtOnce == [][C15_IdleWait]_vars

\* C15 witness: a wait has returned at once on an axis whose slot holds a task
\* that was cancelled.
C15_Witness ==
  \E c \in Callers :
     /\ AtReturn(c, "wait_for_motion_complete") /\ call[c].res = "ok"
     /\ call[c].t = NoTask
     /\ motion_tasks[call[c].axis] # NoTask
     /\ tasks[motion_tasks[call[c].axis]].st = "cancelled"


\* C17: whenever home_axis returns normally the axis is at position 0, is homed
\* and is not moving; home_axis on a connected servo-off axis raises ServoError;
\* and a home_axis that raises leaves is_homed as it was.
C17_Home ==
  \A c \in Callers :
     LET a == call'[c].axis IN
     /\ ResumeStep(c, "home_axis") /\ call'[c].res = "ok"
        => positions'[a] = 0 /\ is_homed'[a] /\ ~is_moving'[a]
     /\ CallStep(c, "home_axis") /\ connected /\ ~servo_enabled[a]
        => call'[c].pc = "ret" /\ call'[c].res = "ServoError"
     /\ (CallStep(c, "home_axis") \/ ResumeStep(c, "home_axis"))
        /\ call'[c].pc = "ret" /\ call'[c].res # "ok"
        => is_homed' = is_homed

C17_HomeReturnsHomed == [][C17_Home]_vars


\* C14 (what a wait returns): on a connected backend wait_for_motion_complete
\* returns normally only when the axis has no unfinished motion task left, that
\* is the task it awaited completed or no task of the axis was live at the call;
\* it raises TimeoutError when its timeout elapsed first, and CancelledError when
\* the awaited task was cancelled by another operation.
C14_Wait ==
  \A c \in Callers :
     /\ CallStep(c, "wait_for_motion_complete") /\ connected
        /\ call'[c].pc = "ret" /\ call'[c].res = "ok"
        => LiveTasks(call'[c].axis) = {}
     /\ ResumeStep(c, "wait_for_motion_complete") /\ call'[c].res = "ok"
        => tasks[call[c].t].st = "done"
     /\ ResumeStep(c, "wait_for_motion_complete") /\ call[c].to
        => call'[c].res = "TimeoutError"
     /\ ResumeStep(c, "wait_for_motion_complete") /\ ~call[c].to
        /\ tasks[call[c].t].st = "cancelled"
        => call'[c].res = "CancelledError"

C14_WaitReturnsOnlyWhenComplete == [][C14_Wait]_vars


\* The step in which a move_axis call of caller c that passed the connection and
\* servo checks is decided: it raises MovementError or returns normally.
MoveDecided(c) ==
  \/ /\ CallStep(c, "move_axis") /\ call'[c].pc = "ret"
     /\ connected /\ servo_enabled[call'[c].axis]
  \/ ResumeStep(c, "move_axis")

\* C11: on a connected axis with servo enabled move_axis raises MovementError
\* exactly when the resolved absolute target (the target if absolute, the current
\* position plus the target if relative) has magnitude greater than 500000; a
\* rejected move creates no motion task and leaves the position unchanged, and a
\* resolved target of exactly 500000 or -500000 is accepted with a new task.
C11_Bounds ==
  \A c \in Callers :
     LET a == call'[c].axis
         resolved == ActualTarget(positions[a], call'[c].req)
     IN
     MoveDecided(c)
     => /\ call'[c].res = "MovementError" <=> Abs(resolved) > TravelLimit
        /\ call'[c].res = "MovementError"
           => /\ nextTask' = nextTask
              /\ motion_tasks' = motion_tasks
              /\ positions' = positions
              /\ \A t \in TaskIds : tasks[t].st = "none" => tasks'[t].st = "none"
        /\ Abs(resolved) <= TravelLimit
           => /\ call'[c].res = "ok"
              /\ nextTask' = nextTask + 1
              /\ motion_tasks'[a] = nextTask
              /\ tasks'[nextTask].st = "new"
              /\ tasks'[nextTask].target = resolved

C11_RejectedExactlyBeyondLimit == [][C11_Bounds]_vars

\* A relative move from the travel limit itself is rejected: the axis had been
\* moved to a resolved target of magnitude exactly 500000 before.
C11_Witness ==
  \E c \in Callers :
     /\ AtReturn(c, "move_axis")
     /\ call[c].res = "MovementError"
     /\ call[c].req.relative
     /\ Abs(positions[call[c].axis]) = TravelLimit


\* The operations that check the connection first.
ConnectionCheckedOps ==
  {"get_axis_position", "get_all_positions", "move_axis", "is_axis_moving",
   "wait_for_motion_complete", "enable_servo", "disable_servo", "is_servo_enabled",
   "home_axis", "get_axis_status", "get_stage_status"}

\* C18: each of the eleven operations, when it is called while the backend is not
\* connected, raises HardwareError and changes neither the per-axis state nor the
\* motion tasks; and on a connected engine on which no move was ever made
\* get_axis_position returns 0 for every axis.
C18_Disconnected ==
  \A c \in Callers :
     /\ \A op \in ConnectionCheckedOps :
           CallStep(c, op) /\ ~connected
           => /\ call'[c].pc = "ret"
              /\ call'[c].res = "HardwareError"
              /\ UNCHANGED <<connected, axisState, tasks, nextTask, waiters, ready>>
     /\ CallStep(c, "get_axis_position") /\ connected /\ nextTask = 1
        => /\ call'[c].pc = "ret"
           /\ call'[c].res = "ok"
           /\ call'[c].val = 0

C18_DisconnectedOpsRaise == [][C18_Disconnected]_vars

\* Every one of the eleven operations has been refused: home_axis, the last of
\* them here, is refused after a disconnect of an engine that had moved.
C18_Witness ==
  \E c \in Callers :
     /\ AtReturn(c, "home_axis")
     /\ call[c].res = "HardwareError"
     /\ ~connected
     /\ \E a \in Axes : positions[a] # 0


\* The operations that take an axis and may change its state.
AxisOps ==
  {"move_axis", "wait_for_motion_complete", "enable_servo", "disable_servo", "home_axis"}

\* The step is one of an operation on axis a (its call, its continuation after an
\* await, the expiry of its timeout) or one of a motion task of axis a.
StepOnAxis(a) ==
  \/ \E c \in Callers :
        /\ call'[c] # call[c]
        /\ call'[c].op \in AxisOps
        /\ call'[c].axis = a
  \/ \E t \in TaskIds :
        /\ AtHead(t)
        /\ tasks[t].axis = a
        /\ tasks'[t] # tasks[t]

\* C19: a step of move_axis, wait_for_motion_complete, enable_servo, disable_servo
\* or home_axis on an axis, and every step of a motion task of that axis, leaves
\* the position, servo_enabled, is_moving, is_homed and the task slot of every
\* other axis unchanged.
C19_Independent ==
  \A a \in Axes :
     StepOnAxis(a)
     => \A b \in Axes \ {a} :
           /\ positions'[b] = positions[b]
           /\ servo_enabled'[b] = servo_enabled[b]
           /\ is_moving'[b] = is_moving[b]
           /\ is_homed'[b] = is_homed[b]
           /\ motion_tasks'[b] = motion_tasks[b]

C19_AxesAreIndependent == [][C19_Independent]_vars

\* home_axis on one axis has returned normally while a motion task of another
\* axis is under way: the two ran interleaved.
C19_Witness ==
  \E c \in Callers, b \in Axes :
     /\ AtReturn(c, "home_axis")
     /\ call[c].res = "ok"
     /\ b # call[c].axis
     /\ is_moving[b]
     /\ positions[b] # 0
     /\ servo_enabled[b]


\* The step in which the start() of daemon caller c returns or raises after its
\* await of backend.connect().
StartResumes(c) ==
  dcall[c].pc = "await" /\ dcall[c].op = "start" /\ dcall'[c].pc = "idle"

\* C21: start() called in state STOPPED constructs a backend and either raises
\* ConnectionError with the state ERROR or goes on to connect it in state
\* STARTING; when the connect ends, start() returns in state READY with that
\* backend connected, or raises ConnectionError in state ERROR.  The state is
\* STARTING only while a start() is inside its connect, and a backend is
\* constructed only by a start() that is called in state STOPPED.
C21_Start ==
  /\ \A c \in DaemonCallers :
        /\ StartCall(c) /\ state = "STOPPED"
           => /\ Len(instances') = Len(instances) + 1
              /\ backend' = Len(instances')
              /\ \/ /\ state' = "STARTING"
                    /\ dcall'[c].pc = "await"
                 \/ /\ state' = "ERROR"
                    /\ dcall'[c].pc = "idle"
                    /\ dcall'[c].res = "ConnectionError"
        /\ StartResumes(c)
           => \/ /\ dcall'[c].res = "ok"
                 /\ state' = "READY"
                 /\ instances'[dcall[c].inst]
              \/ /\ dcall'[c].res = "ConnectionError"
                 /\ state' = "ERROR"
  /\ state' = "STARTING"
     => \E c \in DaemonCallers : dcall'[c].op = "start" /\ dcall'[c].pc = "await"
  /\ Len(instances') # Len(instances)
     => /\ state = "STOPPED"
        /\ \E c \in DaemonCallers : dcall[c].pc = "idle" /\ dcall'[c].op = "start"

C21_StartEndsReadyOrError == [][C21_Start]_vars

\* A start() has raised ConnectionError after its connect failed; the daemon is in
\* state ERROR with the backend it constructed.
C21_Witness ==
  \E c \in DaemonCallers :
     /\ dcall[c].op = "start" /\ dcall[c].pc = "idle"
     /\ dcall[c].res = "ConnectionError"
     /\ state = "ERROR"
     /\ backend # NoBackend


\* C22 (a stop() that returns normally): when stop() has returned after
\* disconnecting the backend, the state is STOPPED, the backend reference is
\* cleared, the backend is not connected and all its motion tasks are cancelled:
\* no axis has a live motion task.
C22_StopLeavesNothingRunning ==
  \A c \in Callers :
     AtReturn(c, "stop") /\ call[c].res = "ok"
     => /\ state = "STOPPED"
        /\ backend = NoBackend
        /\ ~connected
        /\ \A a \in Axes : LiveTasks(a) = {}


\* Caller c makes a get_status() call in this step.
GetStatusCall(c) ==
  /\ dcall[c].pc = "idle"
  /\ dcall'[c] # dcall[c]
  /\ dcall'[c].op = "get_status"

C23_Step ==
  \A c \in DaemonCallers :
     GetStatusCall(c) =>
       /\ state # "READY" =>
            /\ dcall'[c].res = "RuntimeError"
            /\ UNCHANGED <<use_mock, state, backend, instances, backendVars, procedureVars>>
       /\ state = "READY" /\ use_mock =>
            /\ dcall'[c].res = "ok"
            /\ dcall'[c].status.daemon_state = "READY"
            /\ Len(dcall'[c].status.left_stage) = 6
            /\ Len(dcall'[c].status.right_stage) = 6
            /\ dcall'[c].status.is_mock = use_mock
            /\ dcall'[c].status.connection_established = instances[backend]

\* C23: get_status() fails with RuntimeError in every state other than READY and
\* changes nothing; in state READY it returns the status of both stages, six
\* axes each, with the daemon state, the mock flag and the connection flag of
\* the backend. Stated for the mock backend, where no driver call can fail.
C23_GetStatusReadyOnly == [][C23_Step]_vars


\* The calls the route has made so far for operation op, in the order made.
CallsOf(op) == SelectSeq(multi.calls, LAMBDA k : k.op = op)

\* Every request the first loop has passed got its move_axis call, in order.
MovesInRequestOrder ==
  LET moves == CallsOf("move_axis")
  IN /\ \A j \in DOMAIN moves : moves[j].req = j
     /\ \A j \in DOMAIN multi.calls :
          multi.calls[j].op = "move_axis" <=> j <= Len(moves)
     /\ multi.pc = "start" => Len(moves) = multi.i - 1
     /\ multi.pc \in {"wait", "report", "returned", "raised"}
          => Len(moves) = Len(multi.movements)

\* The waits and the read-backs come one request at a time, in request order:
\* the read-back of a request follows its wait and precedes the next wait.
WaitsInRequestOrder ==
  LET waits == CallsOf("wait_for_motion_complete")
  IN /\ \A j \in DOMAIN waits : waits[j].req = j
     /\ \A j, k \in DOMAIN multi.calls :
          j < k /\ multi.calls[j].op # "move_axis"
            => multi.calls[j].req <= multi.calls[k].req
     /\ \A k \in DOMAIN multi.calls :
          multi.calls[k].op = "get_axis_position" /\ multi.wait
            => \E j \in 1..(k - 1) :
                 /\ multi.calls[j].op = "wait_for_motion_complete"
                 /\ multi.calls[j].req = multi.calls[k].req

\* One result for each request, in request order.
OneResultPerRequest ==
  /\ Len(multi.responses) = Len(multi.movements)
  /\ \A j \in DOMAIN multi.responses :
       /\ multi.responses[j].req = j
       /\ multi.responses[j].axis = multi.movements[j]

C25_OverallStatusErrorIffFailure ==
  multi.pc = "returned" =>
    LET failure ==
          \E k \in DOMAIN multi.calls :
             /\ ~multi.calls[k].ok
             /\ \/ multi.calls[k].op = "move_axis"
                \/ multi.wait
    IN multi.overall_status = IF failure THEN "ERROR" ELSE "COMPLETED"

\* A response to several movements with overall status ERROR although the
\* first and the last call of the route returned.
C25_Witness ==
  /\ multi.pc = "returned"
  /\ Len(multi.movements) > 1
  /\ multi.overall_status = "ERROR"
  /\ multi.calls[Len(multi.calls)].ok
  /\ multi.calls[1].ok


\* C26: wait_for_completion returns a result only when a poll saw a terminal
\* status, never while the polled status is Idle or Aligning: success for
\* SUCCESS, failure for FAILURE and ERROR (an unrecognised driver string is
\* ERROR), failure with the message "Stopped by user" for STOPPED; and the
\* result says success only if the status it reports is SUCCESS.
C26_ResultMatchesTerminalStatus ==
  align.pc = "returned" =>
    /\ align.polled \in {"Success", "Failure", "Error", "Stopped"}
    /\ align.polled = "Success" => align.result.success
    /\ align.polled \in {"Failure", "Error"} => ~align.result.success
    /\ align.polled = "Stopped" =>
         ~align.result.success /\ align.result.message = "Stopped by user"
    /\ align.result.success => align.result.status = "Success"


\* A call of wait_for_completion has ended: with a result or with AlignmentError.
WaitEnded == align.pc \in {"returned", "raised"}

RealWaitEnded(res) ==
  /\ rcall.op = "wait_for_motion_complete"
  /\ rcall.pc = "done"
  /\ rcall.res = res

\* C28: RealBackend.wait_for_motion_complete polls the driver until a terminal
\* outcome: it returns exactly when a poll reports InPosition, the first poll
\* included; it fails with MovementError exactly when a poll reports Error, and
\* with TimeoutError only when a poll reports another status after the timeout,
\* measured from the start of the call, has passed; until then it polls on.
C28_RealWaitPollsToTerminalOutcome ==
  /\ [](rcall.op = "wait_for_motion_complete" /\ rcall.pc = "done" =>
          /\ rcall.res \in {"ok", "MovementError", "TimeoutError", "HardwareError"}
          /\ rcall.res = "ok" <=> rcall.polled = "InPosition"
          /\ rcall.res = "MovementError" <=> rcall.polled = "Error"
          /\ rcall.res = "TimeoutError" =>
               /\ rcall.polled \notin {"InPosition", "Error"}
               /\ rcall.elapsed > rcall.timeout
          /\ rcall.res = "HardwareError" <=> rcall.polls = 0)
  /\ [](rcall.pc = "sleep" =>
          /\ rcall.polled \notin {"InPosition", "Error"}
          /\ rcall.elapsed <= rcall.timeout)
  /\ (rcall.pc = "sleep" ~> rcall.pc = "done")

\* A wait that slept past its timeout and still returned normally, because the
\* poll after the sleep reported InPosition.
C28_Witness ==
  /\ RealWaitEnded("ok")
  /\ rcall.polls > 1
  /\ rcall.elapsed > rcall.timeout


\* emergency_stop() of RealBackend is called and returns in this step.
RealEmergencyStopStep ==
  /\ rcall.pc = "idle"
  /\ rcall'.op = "emergency_stop"

C29_Step ==
  RealEmergencyStopStep =>
    /\ rcall'.res = "ok"
    /\ UNCHANGED <<real_connected, axis_components>>
    /\ IF real_connected
       THEN /\ Len(rcall'.attempted) = Cardinality(AxisNumbers)
            /\ Range(rcall'.attempted) = AxisNumbers
            /\ \A n \in AxisNumbers \ rcall'.failing : ~servo_on'[n]
            /\ \A n \in rcall'.failing : servo_on'[n] = servo_on[n]
       ELSE /\ rcall'.attempted = <<>>
            /\ UNCHANGED servo_on

\* C29: RealBackend.emergency_stop attempts every one of the 12 axes even when
\* the driver call of some axes fails and never raises for such a failure: the
\* failing axes are passed over and the servos of all the others are turned off;
\* when the backend is not connected it does nothing.
C29_EmergencyStopAttemptsEveryAxis == [][C29_Step]_vars

\* An emergency stop has returned after the driver calls of the first axis and
\* of another axis failed: these two have their servo on, the last axis has not.
C29_Witness ==
  /\ rcall.op = "emergency_stop"
  /\ rcall.pc = "done"
  /\ Cardinality(rcall.failing) = MaxFailing
  /\ FirstAxisNumber \in rcall.failing
  /\ LastAxisNumber \notin rcall.failing
  /\ \A n \in rcall.failing : servo_on[n]
  /\ Len(rcall.attempted) = Cardinality(AxisNumbers)


\* The axis numbers of the entries of a StageStatus, in order.
EntryAxes(status) == [j \in DOMAIN status.axes |-> status.axes[j].axis]

\* C30: get_stage_status(LEFT) returns exactly the six entries of X1, Y1, Z1,
\* TX1, TY1, TZ1 (axis numbers 1 to 6) and get_stage_status(RIGHT) exactly those
\* of X2, Y2, Z2, TX2, TY2, TZ2 (7 to 12); each of the 12 axes is in exactly one
\* stage, and each entry is the get_axis_status snapshot of its axis at the time
\* of the call.
C30_StageStatusHasItsSixAxes ==
  /\ \A n \in AxisNumbers :
        Cardinality({stage \in StageIds : n \in Range(StageAxes(stage))}) = 1
  /\ \A c \in Callers :
        AtReturn(c, "get_stage_status") /\ call[c].res = "ok"
        => LET status == call[c].status
           IN /\ status.stage_id \in StageIds
              /\ status.stage_id = LeftStage => EntryAxes(status) = <<1, 2, 3, 4, 5, 6>>
              /\ status.stage_id = RightStage
                   => EntryAxes(status) = <<7, 8, 9, 10, 11, 12>>
              /\ \A j \in DOMAIN status.axes :
                    status.axes[j] = AxisStatusOf(status.axes[j].axis)

\* The status of the right stage was returned while an axis of the left stage
\* was moving away from 0, and it has none of the left stage's axes.
C30_Witness ==
  \E c \in Callers :
     /\ AtReturn(c, "get_stage_status")
     /\ call[c].res = "ok"
     /\ call[c].status.stage_id = RightStage
     /\ Len(call[c].status.axes) = 6
     /\ \E a \in Axes : is_moving[a] /\ positions[a] # 0


\* C31: in every reachable state of the daemon, also when start() and stop() of
\* concurrent callers interleave at the await of connect or disconnect, READY
\* implies that the daemon holds a backend and that this backend is connected.
C31_ReadyHasConnectedBackend ==
  state = "READY" => backend # NoBackend /\ instances[backend]


\* C32: when wait_for_motion_complete raises TimeoutError, is_moving of the axis is
\* false and no motion task of the axis that has begun to run is still live (a task
\* that another caller created since and that has not run yet is left aside), so
\* that the position stays where the timeout found it.
C32_TimeoutLeavesNoRunningTask ==
  \A c \in Callers :
     AtReturn(c, "wait_for_motion_complete") /\ call[c].res = "TimeoutError"
     => /\ ~is_moving[call[c].axis]
        /\ \A t \in LiveTasks(call[c].axis) : tasks[t].st = "new"


\* C33: when the route waits, every response of a request whose move_axis call
\* raised has status ERROR: no request whose move was never started is reported
\* as COMPLETED.
C33_FailedMoveReportedAsError ==
  multi.wait =>
    \A k \in 1..Len(multi.responses) :
       BackendCall("move_axis", multi.responses[k].req, FALSE) \in Range(multi.calls)
       => multi.responses[k].status = "ERROR"


\* C34: a connect() of RealBackend that raised ConnectionError, at whichever step,
\* leaves is_connected false.
C34_FailedConnectLeavesDisconnected ==
  rcall.pc = "done" /\ rcall.op = "connect" /\ rcall.res = "ConnectionError"
  => ~real_connected


\* A step of an emergency_stop() call of MockBackend: its call, or its return
\* after the await of a cancelled task.
MockEmergencyStopStep ==
  \E c \in Callers : call'[c] # call[c] /\ call'[c].op = "emergency_stop"

\* emergency_stop() of MockBackend leaves the servo flag of every axis as it was,
\* and move_axis on a connected axis whose flag is set never raises ServoError.
MockKeepsServo ==
  /\ MockEmergencyStopStep => servo_enabled' = servo_enabled
  /\ \A c \in Callers :
        \/ CallStep(c, "move_axis") /\ connected /\ servo_enabled[call'[c].axis]
        \/ ResumeStep(c, "move_axis")
        => call'[c].res # "ServoError"

\* C35 as stated: emergency_stop() leaves the servo flag of every axis unchanged
\* in MockBackend and in RealBackend alike.
C35_BothEnginesKeepServo ==
  [][/\ MockEmergencyStopStep => servo_enabled' = servo_enabled
     /\ RealEmergencyStopStep => servo_on' = servo_on]_vars

C35_Step ==
  /\ MockKeepsServo
  /\ RealEmergencyStopStep /\ real_connected =>
       \A n \in AxisNumbers :
          servo_on'[n] = IF n \in axis_components /\ n \notin rcall'.failing
                         THEN FALSE ELSE servo_on[n]
  /\ RealEmergencyStopStep /\ ~real_connected => servo_on' = servo_on
  /\ \A n \in AxisNumbers :
        /\ rcall.pc = "idle" /\ rcall'.op = "move_axis" /\ rcall'.axis = n
        /\ real_connected /\ n \in axis_components /\ ~servo_on[n]
        => rcall'.res \in {"ServoError", "MovementError"}

\* C35, amended: the two engines differ. emergency_stop() of MockBackend leaves
\* the servo flag of every axis unchanged, so a connected axis whose servo was
\* enabled does not raise ServoError on the next move_axis. emergency_stop() of a
\* connected RealBackend turns off the servo of every axis component whose driver
\* calls succeed and leaves the others as they were; move_axis on an axis whose
\* servo is off raises (ServoError, or MovementError when the driver fails) until
\* enable_servo turns it on again.
C35_EnginesDifferOnServo == [][C35_Step]_vars

\* A connected RealBackend has returned from emergency_stop() and the servo of an
\* axis it stopped is off.
C35_Witness ==
  /\ ~use_mock /\ real_connected
  /\ rcall.pc = "done" /\ rcall.op = "emergency_stop"
  /\ \E n \in Range(rcall.attempted) : ~servo_on[n] /\ n \notin rcall.failing


\* C36: in every reachable state of MockBackend the position of the axis has
\* magnitude at most 500000, whatever moves were accepted, rejected or cancelled.
C36_PositionWithinTravel == Abs(sim.position) <= TravelLimit

\* The task of _simulate_motion writes a position in this step.
SimWrites == sim.pc \in {"new", "sleep"} /\ sim'.pc \in {"sleep", "idle"}

C37_Step ==
  SimWrites =>
    /\ Min(sim.start, sim.target) <= sim'.position
    /\ sim'.position <= Max(sim.start, sim.target)
    /\ sim.target >= sim.start => sim'.position >= sim.position
    /\ sim.target <= sim.start => sim'.position <= sim.position

\* C37: every position a live motion task writes lies between its start and its
\* target inclusive, and the written positions go monotonically from start
\* towards target: never beyond the target, never back towards the start.
C37_WritesBetweenStartAndTarget == [][C37_Step]_vars


\* distance * 10 of the task of the axis, distance = abs(target - start).
SimDistanceTimesTen == Abs(Fl(sim.target - sim.start)) * UpdatesPerSecond

\* C38 as stated: a task that has completed had steps = max(round(duration * 10),
\* 1) increments and suspended exactly steps times.
C38_RoundedStepsAndSleeps ==
  sim.ended = "completed" =>
    /\ sim.steps = StepsRounded(0, Abs(Fl(sim.target - sim.start)), sim.speed)
    /\ sim.sleeps = sim.steps

\* C38, amended: a motion task over distance |target - start| at speed s uses
\* steps = max(int(duration * 10), 1), the product truncated and not rounded
\* (1 when s <= 0 or the distance is below s / 10), and makes steps + 1 passes
\* (i = 0..steps), each one position update followed by one suspension of
\* duration / steps, so that it has suspended exactly steps + 1 times when it
\* completes.
C38_TruncatedStepsAndSleeps ==
  sim.ended = "completed" =>
    /\ IF sim.speed > 0 /\ SimDistanceTimesTen >= sim.speed
       THEN /\ sim.steps * sim.speed <= SimDistanceTimesTen
            /\ SimDistanceTimesTen < (sim.steps + 1) * sim.speed
       ELSE sim.steps = 1
    /\ sim.updates = sim.steps + 1
    /\ sim.sleeps = sim.steps + 1

\* A task has completed for which truncating and rounding differ: 2 increments
\* where round(duration * 10) is 3.
C38_Witness ==
  /\ sim.ended = "completed" /\ sim.pc = "idle"
  /\ sim.steps = 2 /\ sim.sleeps = 3
  /\ StepsRounded(0, Abs(Fl(sim.target - sim.start)), sim.speed) = 3


\* A call of RealBackend is made or goes on in this step and reads the driver
\* status of its axis.
RealReadsStatus(op) == rcall' # rcall /\ rcall'.op = op /\ rcall'.res # "HardwareError"

C39_Step ==
  /\ \A op \in {"is_axis_moving", "get_axis_status"} :
        RealReadsStatus(op) =>
          /\ rcall'.res = "ok"
          /\ rcall'.moving <=> rcall'.polled # "InPosition"
          /\ rcall'.polled = "Error" => rcall'.moving
  /\ RealReadsStatus("wait_for_motion_complete") /\ rcall'.polled = "Error" =>
        rcall'.pc = "done" /\ rcall'.res = "MovementError"

\* C39: is_axis_moving of RealBackend returns true exactly when the driver status
\* of the axis is not "InPosition"; an axis whose driver status is "Error" is
\* reported as moving by is_axis_moving and by get_axis_status, while
\* wait_for_motion_complete that reads this status raises MovementError.
C39_ErrorCountsAsMoving == [][C39_Step]_vars

\* is_axis_moving has answered true for an axis whose driver status is "Error".
C39_Witness ==
  /\ rcall.op = "is_axis_moving" /\ rcall.pc = "done" /\ rcall.res = "ok"
  /\ rcall.polled = "Error" /\ rcall.moving


\* The statuses that end a wait_for_completion with a result.
TerminalAlignmentStatuses == {"Success", "Failure", "Error", "Stopped"}

\* A pass of the loop of wait_for_completion is made in this step: the call
\* starts, or its sleep ends.
AlignPasses == align.pc \in {"idle", "sleep"} /\ align' # align

C40_Step ==
  AlignPasses =>
    /\ align'.polls >= 1
    /\ align'.polled \in TerminalAlignmentStatuses =>
         align'.pc = "returned" /\ align'.result.success = (align'.polled = "Success")
    /\ align'.pc = "raised" =>
         align'.polled \notin TerminalAlignmentStatuses /\ align'.elapsed > align'.timeout

====
